---- MODULE Spec2Model ----
(***************************************************************************)
(* Shift scheduling and handover core of the PWID care platform            *)
(* (src/PWID/services/shifts_routes.py, src/PWID/services/handover_engine.py,*)
(* src/PWID/risk_engine.py), as a state machine over the SQL store.        *)
(***************************************************************************)
EXTENDS Integers, Sequences, FiniteSets, TLC

\* ------------------------------------------------------------------ bounds
\* Instants are 0..MaxTime, all on one calendar day.
MaxTime == 3
\* At most MaxShifts rows are ever inserted in the shift table.
MaxShifts == 3
\* A run serves at most MaxOps requests one at a time.
MaxOps == 4
\* A concurrent run serves at most MaxReqs requests, MaxInFlight at a time.
MaxReqs == 4
MaxInFlight == 2
\* The step-by-step closing run serves at most MaxCloseReqs requests.
MaxCloseReqs == 3
\* At most MaxLogs routine logs and MaxTasks tasks are recorded.
MaxLogs == 2
MaxTasks == 1
\* A store a generation runs over holds at most MaxStoredLogs routine logs.
MaxStoredLogs == 3

\* The pwid table holds rows 1..NumPwids.
NumPwids == 2

\* Rows of the caretaker table and of the pwid table.
Caregivers == {1, 2}
Pwids == 1..NumPwids
\* An id that names no row of the pwid table.
NoSuchPwid == NumPwids + 1
\* pwid_ids / assigned_pwids lists a request may carry.
PwidLists == {<<>>, <<1>>, <<2>>, <<1, 2>>, <<1, 1>>, <<1, NoSuchPwid>>}
\* The shift type labels a request may carry.
Kinds == {"Morning"}
Instants == 0..MaxTime

\* ------------------------------------------------------------ time strings
\* Shift.start_time / end_time are String columns compared as strings by the
\* queries.  On one calendar day two such strings differ first in the
\* separator after the date and then in the time of day, so a string is
\* modelled as <<separator rank, instant>>: rank 0 is ' ' (0x20), rank 1 is
\* 'T' (0x54).

\* datetime.isoformat(): "YYYY-MM-DDTHH:MM:SS"
Iso(t) == <<1, t>>

\* A datetime object bound to a String column: the sqlite3 driver adapts it
\* with str(), "YYYY-MM-DD HH:MM:SS".
Adapted(t) == <<0, t>>

\* datetime.fromisoformat(s): accepts either separator.
FromIso(s) == s[2]

\* s < u, s <= u on strings (lexicographic).
StrLT(s, u) == s[1] < u[1] \/ (s[1] = u[1] /\ s[2] < u[2])
StrLE(s, u) == s = u \/ StrLT(s, u)

\* ------------------------------------------------------------------- state
VARIABLES
  shifts,     \* shift table: row id i is shifts[i]; assigned_pwids holds the rows of shift_pwid
  summaries,  \* handover_summary table, in insertion order
  logs,       \* routinelog table
  tasks,      \* task table
  now,        \* datetime.utcnow()
  resp,       \* the last response sent (a 409 of assign_pwids also keeps the batch it was validating)
  procs,      \* the requests served concurrently, each with its request-local state
  nops        \* requests served one at a time so far

vars == <<shifts, summaries, logs, tasks, now, resp, procs, nops>>

LiveStatus == {"Scheduled", "Active"}

NoResp == [op |-> "none", code |-> 0, id |-> 0, id2 |-> 0, n |-> 0, ids |-> <<>>]
Resp(op, code, id, id2, n, ids) ==
  [op |-> op, code |-> code, id |-> id, id2 |-> id2, n |-> n, ids |-> ids]

Range(s) == {s[i] : i \in DOMAIN s}

RECURSIVE SetToSeq(_)
\* The elements of a set of integers in ascending order.
SetToSeq(S) ==
  IF S = {} THEN <<>>
  ELSE LET m == CHOOSE x \in S : \A y \in S : x <= y
       IN <<m>> \o SetToSeq(S \ {m})

Init ==
  /\ shifts = <<>>
  /\ summaries = <<>>
  /\ logs = <<>>
  /\ tasks = <<>>
  /\ now = 0
  /\ resp = NoResp
  /\ procs = <<>>
  /\ nops = 0

\* One more request is served (at most MaxOps in a run).
Served == nops < MaxOps /\ nops' = nops + 1

\* ------------------------------------------------------------ create_shift
\* The or_(...) of create_shift's overlap query: (s, e) the row's window,
\* (S, E) the requested one.
CreateWindowCond(s, e, S, E) ==
  \/ (StrLE(s, S) /\ StrLT(S, e))
  \/ (StrLT(s, E) /\ StrLE(E, e))
  \/ (StrLE(S, s) /\ StrLE(e, E))

\* The rows create_shift's overlap query matches in table tbl.
CaregiverOverlapping(tbl, c, S, E) ==
  {i \in DOMAIN tbl :
     /\ tbl[i].caregiver_id = c
     /\ tbl[i].status \in LiveStatus
     /\ CreateWindowCond(tbl[i].start_time, tbl[i].end_time, S, E)}

\* PWID.query.filter(PWID.id.in_(ids)).all(): one entity per matching row.
PwidsIn(ids) == SetToSeq(Range(ids) \cap Pwids)

\* collection.extend(items) followed by the flush at commit: the unit of work
\* inserts a shift_pwid row for each entity of the collection that was not in
\* it when it was loaded.
RECURSIVE ExtendFlush(_, _)
ExtendFlush(rows, items) ==
  IF items = <<>> THEN rows
  ELSE ExtendFlush(IF Head(items) \in Range(rows) THEN rows
                   ELSE Append(rows, Head(items)), Tail(items))

NewShift(kind, S, E, c, status, pw) ==
  [type |-> kind, start_time |-> S, end_time |-> E, caregiver_id |-> c,
   status |-> status, assigned_pwids |-> pw]

\* create_shift that adds and commits the row before it looks for an overlap.
CreateShiftAddFirst(c, ts, te, kind, ids, hasIds) ==
  /\ Served
  /\ Len(shifts) < MaxShifts
  /\ LET S == Iso(ts)
         E == Iso(te)
         over == CaregiverOverlapping(shifts, c, S, E)
         pw == IF hasIds THEN ExtendFlush(<<>>, PwidsIn(ids)) ELSE <<>>
     IN /\ shifts' = Append(shifts, NewShift(kind, S, E, c, "Scheduled", pw))
        /\ IF over # {}
           THEN \E k \in over : resp' = Resp("create", 409, k, 0, 0, <<>>)
           ELSE resp' = Resp("create", 201, Len(shifts) + 1, 0, 0, pw)
  /\ UNCHANGED <<summaries, logs, tasks, now, procs>>

\* POST /shifts/create
CreateShift(c, ts, te, kind, ids, hasIds) ==
  /\ Served
  /\ LET S == Iso(ts)
         E == Iso(te)
         over == CaregiverOverlapping(shifts, c, S, E)
     IN IF over # {}
        THEN /\ \E k \in over : resp' = Resp("create", 409, k, 0, 0, <<>>)
             /\ UNCHANGED shifts
        ELSE LET pw == IF hasIds THEN ExtendFlush(<<>>, PwidsIn(ids)) ELSE <<>>
             IN /\ Len(shifts) < MaxShifts
                /\ shifts' = Append(shifts, NewShift(kind, S, E, c, "Scheduled", pw))
                /\ resp' = Resp("create", 201, Len(shifts) + 1, 0, 0, pw)
  /\ UNCHANGED <<summaries, logs, tasks, now, procs>>

\* ------------------------------------------------------------ assign_pwids
\* The or_(...) of assign_pwids' overlap query: (s, e) the other row's
\* window, (S, E) the target shift's.
AssignWindowCond(s, e, S, E) ==
  \/ (StrLE(s, S) /\ StrLT(S, e))
  \/ (StrLT(s, E) /\ StrLE(E, e))

\* The rows assign_pwids' query matches for recipient p and target shift sid.
PwidOverlapping(tbl, p, sid) ==
  {j \in DOMAIN tbl :
     /\ p \in Range(tbl[j].assigned_pwids)
     /\ j # sid
     /\ tbl[j].status \in LiveStatus
     /\ AssignWindowCond(tbl[j].start_time, tbl[j].end_time,
                         tbl[sid].start_time, tbl[sid].end_time)}

\* The validation loop: the index in pwids of the first recipient whose query
\* matches a row, 0 when none does.
FirstConflict(tbl, pwids, sid) ==
  LET hit == {k \in DOMAIN pwids : PwidOverlapping(tbl, pwids[k], sid) # {}}
  IN IF hit = {} THEN 0 ELSE CHOOSE k \in hit : \A m \in hit : k <= m

\* POST /shifts/assign_pwids
AssignPwids(sid, ids) ==
  /\ Served
  /\ IF sid \notin DOMAIN shifts
     THEN \* get_or_404 raises inside the try: the handler's except answers 500
          /\ resp' = Resp("assign", 500, 0, 0, 0, <<>>)
          /\ UNCHANGED shifts
     ELSE LET pwids == PwidsIn(ids)
              k == FirstConflict(shifts, pwids, sid)
          IN IF k # 0
             THEN /\ \E j \in PwidOverlapping(shifts, pwids[k], sid) :
                       resp' = Resp("assign", 409, j, pwids[k], k, pwids)
                  /\ UNCHANGED shifts
             ELSE LET rows == ExtendFlush(shifts[sid].assigned_pwids, pwids)
                  IN /\ shifts' = [shifts EXCEPT ![sid].assigned_pwids = rows]
                     /\ resp' = Resp("assign", 200, sid, 0, 0, rows)
  /\ UNCHANGED <<summaries, logs, tasks, now, procs>>

\* ------------------------------------------------------------ listings
\* The window test with a strict lower end: a shift starting at now is missed.
ContainsNowStrict(sh, t) == StrLT(sh.start_time, Iso(t)) /\ StrLE(Iso(t), sh.end_time)

\* Shift.start_time <= now AND Shift.end_time >= now, now an ISO string.
ContainsNow(sh, t) == StrLE(sh.start_time, Iso(t)) /\ StrLE(Iso(t), sh.end_time)

\* get_active_shifts whose loop marks every row of the query Active.
GetActiveShiftsMarkAll ==
  /\ Served
  /\ LET sel == {i \in DOMAIN shifts :
                  ContainsNow(shifts[i], now) /\ shifts[i].status # "Completed"}
     IN /\ shifts' = [i \in DOMAIN shifts |->
                        IF i \in sel THEN [shifts[i] EXCEPT !.status = "Active"]
                        ELSE shifts[i]]
        /\ resp' = Resp("active", 200, 0, 0, Cardinality(sel), SetToSeq(sel))
  /\ UNCHANGED <<summaries, logs, tasks, now, procs>>

\* GET /shifts/active
GetActiveShifts ==
  /\ Served
  /\ LET sel == {i \in DOMAIN shifts :
                  ContainsNow(shifts[i], now) /\ shifts[i].status # "Completed"}
     IN /\ shifts' = [i \in DOMAIN shifts |->
                        IF i \in sel /\ shifts[i].status = "Scheduled"
                        THEN [shifts[i] EXCEPT !.status = "Active"] ELSE shifts[i]]
        /\ resp' = Resp("active", 200, 0, 0, Cardinality(sel), SetToSeq(sel))
  /\ UNCHANGED <<summaries, logs, tasks, now, procs>>

RECURSIVE ByStartDesc(_, _)
\* order_by(Shift.start_time.desc()): the row ids of S, latest start first
\* (rows with equal start in row order).
ByStartDesc(tbl, S) ==
  IF S = {} THEN <<>>
  ELSE LET m == CHOOSE i \in S : \A j \in S :
                  \/ StrLT(tbl[j].start_time, tbl[i].start_time)
                  \/ (tbl[j].start_time = tbl[i].start_time /\ i <= j)
       IN <<m>> \o ByStartDesc(tbl, S \ {m})

\* A maintenance step that also deletes the newest row once it is Completed.
GetAllShiftsPurging ==
  /\ Served
  /\ shifts' = IF shifts # <<>> /\ shifts[Len(shifts)].status = "Completed"
               THEN SubSeq(shifts, 1, Len(shifts) - 1) ELSE shifts
  /\ resp' = Resp("all", 200, 0, 0, Len(shifts'), ByStartDesc(shifts', DOMAIN shifts'))
  /\ UNCHANGED <<summaries, logs, tasks, now, procs>>

\* GET /shifts/all
GetAllShifts ==
  /\ Served
  /\ LET cand == {i \in DOMAIN shifts :
                   ContainsNow(shifts[i], now) /\ shifts[i].status = "Scheduled"}
     IN /\ shifts' = [i \in DOMAIN shifts |->
                        IF i \in cand THEN [shifts[i] EXCEPT !.status = "Active"]
                        ELSE shifts[i]]
        /\ resp' = Resp("all", 200, 0, 0, Len(shifts), ByStartDesc(shifts, DOMAIN shifts))
  /\ UNCHANGED <<summaries, logs, tasks, now, procs>>

\* ------------------------------------------------------- validate_coverage
\* PWID rows with is_active set.
ActivePwids == Pwids

\* The rows validate_coverage's query matches for recipient p.
CoveringShifts(tbl, p, S, E) ==
  {i \in DOMAIN tbl :
     /\ p \in Range(tbl[i].assigned_pwids)
     /\ tbl[i].status \in LiveStatus
     /\ StrLE(tbl[i].start_time, S)
     /\ StrLE(E, tbl[i].end_time)}

Uncovered(tbl, S, E) ==
  SetToSeq({p \in ActivePwids : CoveringShifts(tbl, p, S, E) = {}})

\* validate_coverage that also runs the listings' maintenance step.
ValidateCoverageActivating(ts, te) ==
  /\ Served
  /\ LET unc == Uncovered(shifts, Iso(ts), Iso(te))
     IN resp' = Resp("coverage", 200, 0, 0, Len(unc), unc)
  /\ shifts' = [i \in DOMAIN shifts |->
                  IF ContainsNow(shifts[i], now) /\ shifts[i].status = "Scheduled"
                  THEN [shifts[i] EXCEPT !.status = "Active"] ELSE shifts[i]]
  /\ UNCHANGED <<summaries, logs, tasks, now, procs>>

\* POST /shifts/validate_coverage
ValidateCoverage(ts, te) ==
  /\ Served
  /\ LET unc == Uncovered(shifts, Iso(ts), Iso(te))
     IN resp' = Resp("coverage", 200, 0, 0, Len(unc), unc)
  /\ UNCHANGED <<shifts, summaries, logs, tasks, now, procs>>

\* -------------------------------------------------------- handover engine
\* Values a routine log's fields take: those the clients send and those
\* process_observation extracts.
SleepLabels == {"Good", "Average", "Disturbed", "Poor", "Unknown"}
MealLabels == {"taken", "skipped", "Normal", "Reduced", "Skipped", "Unknown"}
MoodLabels == {"Calm", "Happy", "happy", "Anxious", "Irritable", "Aggressive", "Unknown"}
IncidentLabels == {"no", "yes", "None", "Minor", "Concerning", "Unknown"}

score_mood(m) ==
  CASE m = "Calm" -> 0 [] m = "Happy" -> 0 [] m = "Anxious" -> 2
    [] m = "Irritable" -> 3 [] m = "Aggressive" -> 5 [] OTHER -> 1

score_sleep(s) ==
  CASE s = "Good" -> 0 [] s = "Disturbed" -> 1 [] s = "Poor" -> 2 [] OTHER -> 1

score_meals(m) ==
  CASE m = "Normal" -> 0 [] m = "Reduced" -> 1 [] m = "Skipped" -> 2 [] OTHER -> 1

score_incident(i) ==
  CASE i = "None" -> 0 [] i = "Minor" -> 3 [] i = "Concerning" -> 6 [] OTHER -> 2

\* calculate_single_risk(log)["score"]
SingleRiskScore(l) ==
  score_mood(l.mood) + score_sleep(l.sleep_quality)
    + score_meals(l.meals) + score_incident(l.incident)

\* calculate_single_risk(log)["level"]
SingleRiskLevel(l) ==
  LET score == SingleRiskScore(l)
  IN IF score >= 8 THEN "High" ELSE IF score >= 4 THEN "Medium" ELSE "Low"

RECURSIVE TotalScore(_)
\* total_score after the loop over ls.
TotalScore(ls) ==
  IF ls = <<>> THEN 0 ELSE SingleRiskScore(Head(ls)) + TotalScore(Tail(ls))

RECURSIVE Gcd(_, _)
Gcd(a, b) == IF b = 0 THEN a ELSE Gcd(b, a % b)

RECURSIVE IsPowerOfTwo(_)
IsPowerOfTwo(n) == n = 1 \/ (n > 1 /\ n % 2 = 0 /\ IsPowerOfTwo(n \div 2))

RECURSIVE BinaryRemainder(_, _, _)
\* The remainder of r / q after `bits` more binary digits of the quotient.
BinaryRemainder(r, q, bits) ==
  IF bits = 0 THEN r ELSE BinaryRemainder((2 * r) % q, q, bits - 1)

RECURSIVE ScaleUp(_, _)
ScaleUp(p, q) == IF p >= q THEN p ELSE ScaleUp(2 * p, q)

RECURSIVE ScaleDown(_, _)
ScaleDown(p, q) == IF p < 2 * q THEN q ELSE ScaleDown(p, 2 * q)

\* total / n as a float (53 significant bits, round to nearest) is greater
\* than the quotient; total, n > 0 and the quotient is not a binary fraction.
FloatDivRoundsUp(total, n) ==
  LET p == ScaleUp(total, n)
      q == ScaleDown(p, n)
  IN 2 * BinaryRemainder(p - q, q, 52) > q

\* round(total / n, 2) in hundredths: the float quotient is rounded to the
\* nearest hundredth, a quotient exactly halfway to the even one.
PyRound2(total, n) ==
  LET k == (100 * total) \div n
      rem == (100 * total) % n
  IN IF 2 * rem < n THEN k
     ELSE IF 2 * rem > n THEN k + 1
     ELSE IF IsPowerOfTwo(n \div Gcd(total, n))
          THEN (IF k % 2 = 0 THEN k ELSE k + 1)
          ELSE (IF FloatDivRoundsUp(total, n) THEN k + 1 ELSE k)

\* An evaluator that rates a recipient without logs 'Medium'.
TrendRiskNoDataMedium(ls) ==
  LET high == Cardinality({i \in DOMAIN ls : SingleRiskLevel(ls[i]) = "High"})
      medium == Cardinality({i \in DOMAIN ls : SingleRiskLevel(ls[i]) = "Medium"})
  IN [level |-> IF ls = <<>> \/ high = 1 \/ (high = 0 /\ medium >= 3) THEN "Medium"
                ELSE IF high >= 2 THEN "High" ELSE "Low",
      score |-> IF ls = <<>> THEN 0
                ELSE PyRound2(TotalScore(ls), Len(ls)),
      reason |-> ""]

\* calculate_trend_risk(ls): the keys "level", "score" (round(avg_score, 2),
\* in hundredths) and "reason" (the trend text, without the count it
\* interpolates).  The returned dict has no "justification" key.
calculate_trend_risk(ls) ==
  LET high == Cardinality({i \in DOMAIN ls : SingleRiskLevel(ls[i]) = "High"})
      medium == Cardinality({i \in DOMAIN ls : SingleRiskLevel(ls[i]) = "Medium"})
      level == IF ls = <<>> THEN "Low"
               ELSE IF high >= 2 THEN "High"
               ELSE IF high = 1 THEN "Medium"
               ELSE IF medium >= 3 THEN "Medium"
               ELSE "Low"
      score == IF ls = <<>> THEN 0
               ELSE PyRound2(TotalScore(ls), Len(ls))
      reason == IF ls = <<>> THEN "No recent logs to analyze."
                ELSE IF high >= 2 THEN "Critical Alert"
                ELSE IF high = 1 THEN "Warning: A high-risk incident was recently recorded."
                ELSE IF medium >= 3 THEN "Caution: Consistent signs of deterioration detected."
                ELSE "Stable trend over recent logs."
  IN [level |-> level, score |-> score, reason |-> reason]

\* The Routinelog rows of recipient p from the shift's start up to instant t.
WindowLogs(tbl, p, sh, t) ==
  SelectSeq(tbl, LAMBDA l : /\ l.pwid_id = p
                            /\ l.created_at >= FromIso(sh.start_time)
                            /\ l.created_at <= t)

Field(ls, f) == [i \in DOMAIN ls |-> ls[i][f]]
Truthy(xs) == SelectSeq(xs, LAMBDA x : x # "")
CountOf(xs, v) == Cardinality({i \in DOMAIN xs : xs[i] = v})

\* max(set(xs), key=xs.count): a most frequent value; which one of several
\* depends on the set's iteration order.
Modes(xs) ==
  {v \in Range(xs) : \A w \in Range(xs) : CountOf(xs, w) <= CountOf(xs, v)}

\* The titles of recipient p's pending tasks.
PendingTitles(tbl, p) ==
  Field(SelectSeq(tbl, LAMBDA k : k.pwid_id = p /\ k.status = "pending"), "title")

\* summary_content built from the routine logs ls and the pending task
\* titles read for a recipient; sl is the value max(...) returned when there
\* are sleep logs.
SummaryOf(ls, titles, sl) ==
  LET sleep_logs == Truthy(Field(ls, "sleep_quality"))
      meals_logs == Truthy(Field(ls, "meals"))
      moods == Truthy(Field(ls, "mood"))
      incidents == Field(SelectSeq(ls, LAMBDA l : l.incident = "yes"), "notes")
      risk == calculate_trend_risk(ls)
  IN [sleep_quality |-> IF sleep_logs # <<>> THEN sl ELSE "No Data",
      meals_summary |-> IF meals_logs # <<>>
                        THEN <<CountOf(meals_logs, "taken"), Len(meals_logs), "taken">>
                        ELSE <<"No Data">>,
      mood_trend |-> moods,
      incidents |-> incidents,
      pending_tasks |-> titles,
      risk_level |-> risk.level,
      risk_justification |-> ""]

\* summary_content for recipient p of shift row sh at instant t.
SummaryContent(p, sh, t, sl) ==
  SummaryOf(WindowLogs(logs, p, sh, t), PendingTitles(tasks, p), sl)

\* What max(...) may return over the routine logs ls.
SleepChoicesOf(ls) ==
  LET xs == Truthy(Field(ls, "sleep_quality"))
  IN IF xs = <<>> THEN {"No Data"} ELSE Modes(xs)

\* What max(...) may return for recipient p.
SleepChoices(p, sh, t) == SleepChoicesOf(WindowLogs(logs, p, sh, t))

\* The per-recipient outcomes of max(...) one generation may see.
SleepPicks(sh, t) ==
  {f \in [Pwids -> Range(Field(logs, "sleep_quality")) \cup {"No Data"}] :
     \A p \in Pwids : f[p] \in SleepChoices(p, sh, t)}

\* The orders in which shift.assigned_pwids may load (the SELECT has no
\* ORDER BY): the order the shift_pwid rows were inserted in, or, by the index
\* of a join table keyed on (shift_id, pwid_id), the order of pwid_id.
LoadOrders(rows) == {rows, SetToSeq(Range(rows))}

\* The write without the lookup of an existing row.
UpsertAlwaysInsert(tbl, sid, p, content) ==
  Append(tbl, [shift_id |-> sid, pwid_id |-> p, content |-> content])

\* The create-or-update step for one recipient.
Upsert(tbl, sid, p, content) ==
  LET ex == {i \in DOMAIN tbl : tbl[i].shift_id = sid /\ tbl[i].pwid_id = p}
  IN IF ex # {}
     THEN [tbl EXCEPT ![CHOOSE i \in ex : \A j \in ex : i <= j].content = content]
     ELSE Append(tbl, [shift_id |-> sid, pwid_id |-> p, content |-> content])

RECURSIVE HandoverLoopSkipEmpty(_, _, _, _, _, _)
\* The loop that writes no summary for a recipient without logs.
HandoverLoopSkipEmpty(tbl, sid, sh, pw, t, pick) ==
  IF pw = <<>> THEN tbl
  ELSE HandoverLoopSkipEmpty(
         IF WindowLogs(logs, Head(pw), sh, t) = <<>> THEN tbl
         ELSE Upsert(tbl, sid, Head(pw),
                     SummaryContent(Head(pw), sh, t, pick[Head(pw)])),
         sid, sh, Tail(pw), t, pick)

RECURSIVE HandoverLoop(_, _, _, _, _, _)
HandoverLoop(tbl, sid, sh, pw, t, pick) ==
  IF pw = <<>> THEN tbl
  ELSE HandoverLoop(Upsert(tbl, sid, Head(pw),
                           SummaryContent(Head(pw), sh, t, pick[Head(pw)])),
                    sid, sh, Tail(pw), t, pick)

\* generate_handover_summary(sid) on shift table stbl and summary table tbl:
\* the summary table it leaves; pw is the recipient collection as loaded.
generate_handover_summary(stbl, tbl, sid, pw, t, pick) ==
  HandoverLoop(tbl, sid, stbl[sid], pw, t, pick)

\* ---------------------------------------------------------------- end_shift
\* end_shift that generates the summaries and leaves the status as it is.
EndShiftKeepStatus(sid) ==
  /\ Served
  /\ IF sid \notin DOMAIN shifts
     THEN /\ resp' = Resp("end", 404, 0, 0, 0, <<>>)
          /\ UNCHANGED <<shifts, summaries>>
     ELSE /\ UNCHANGED shifts
          /\ \E pw \in LoadOrders(shifts[sid].assigned_pwids),
                pick \in SleepPicks(shifts[sid], now) :
               /\ summaries' = generate_handover_summary(shifts, summaries, sid, pw, now, pick)
               /\ resp' = Resp("end", 200, sid, 0, Len(pw), <<>>)
  /\ UNCHANGED <<logs, tasks, now, procs>>

\* POST /shifts/end
EndShift(sid) ==
  /\ Served
  /\ IF sid \notin DOMAIN shifts
     THEN /\ resp' = Resp("end", 404, 0, 0, 0, <<>>)
          /\ UNCHANGED <<shifts, summaries>>
     ELSE /\ shifts' = [shifts EXCEPT ![sid].status = "Completed"]
          /\ \E pw \in LoadOrders(shifts[sid].assigned_pwids),
                pick \in SleepPicks(shifts[sid], now) :
               /\ summaries' = generate_handover_summary(shifts', summaries, sid, pw, now, pick)
               /\ resp' = Resp("end", 200, sid, 0, Len(pw), <<>>)
  /\ UNCHANGED <<logs, tasks, now, procs>>

\* -------------------------------------------------------- emergency_replace
\* emergency_replace that moves the recipients to the successor.
EmergencyReplaceMoving(sid, c) ==
  /\ Served
  /\ IF sid \notin DOMAIN shifts
     THEN /\ resp' = Resp("replace", 404, 0, 0, 0, <<>>)
          /\ UNCHANGED <<shifts, summaries>>
     ELSE /\ Len(shifts) < MaxShifts
          /\ \E pw \in LoadOrders(shifts[sid].assigned_pwids),
                pick \in SleepPicks(shifts[sid], now) :
               /\ shifts' = Append([shifts EXCEPT ![sid].status = "Emergency-Reassigned",
                                                  ![sid].assigned_pwids = <<>>],
                                   NewShift(shifts[sid].type, Adapted(now),
                                            shifts[sid].end_time, c, "Active",
                                            ExtendFlush(<<>>, pw)))
               /\ summaries' = generate_handover_summary(shifts', summaries, sid, <<>>, now, pick)
          /\ resp' = Resp("replace", 200, sid, Len(shifts) + 1, 0, <<>>)
  /\ UNCHANGED <<logs, tasks, now, procs>>

\* emergency_replace whose successor gets no recipients.
EmergencyReplaceNoCopy(sid, c) ==
  /\ Served
  /\ IF sid \notin DOMAIN shifts
     THEN /\ resp' = Resp("replace", 404, 0, 0, 0, <<>>)
          /\ UNCHANGED <<shifts, summaries>>
     ELSE /\ Len(shifts) < MaxShifts
          /\ \E pw \in LoadOrders(shifts[sid].assigned_pwids),
                pick \in SleepPicks(shifts[sid], now) :
               /\ shifts' = Append([shifts EXCEPT ![sid].status = "Emergency-Reassigned"],
                                   NewShift(shifts[sid].type, Adapted(now),
                                            shifts[sid].end_time, c, "Active", <<>>))
               /\ summaries' = generate_handover_summary(shifts', summaries, sid, pw, now, pick)
          /\ resp' = Resp("replace", 200, sid, Len(shifts) + 1, 0, <<>>)
  /\ UNCHANGED <<logs, tasks, now, procs>>

\* POST /shifts/emergency_replace
EmergencyReplace(sid, c) ==
  /\ Served
  /\ IF sid \notin DOMAIN shifts
     THEN /\ resp' = Resp("replace", 404, 0, 0, 0, <<>>)
          /\ UNCHANGED <<shifts, summaries>>
     ELSE /\ Len(shifts) < MaxShifts
          /\ \E pw \in LoadOrders(shifts[sid].assigned_pwids),
                pick \in SleepPicks(shifts[sid], now) :
               /\ shifts' = Append([shifts EXCEPT ![sid].status = "Emergency-Reassigned"],
                                   NewShift(shifts[sid].type, Adapted(now),
                                            shifts[sid].end_time, c, "Active",
                                            ExtendFlush(<<>>, pw)))
               /\ summaries' = generate_handover_summary(shifts', summaries, sid, pw, now, pick)
          /\ resp' = Resp("replace", 200, sid, Len(shifts) + 1, 0, <<>>)
  /\ UNCHANGED <<logs, tasks, now, procs>>

\* GET /shifts/handover/<shift_id>
GetHandover(sid) ==
  /\ Served
  /\ LET rows == {i \in DOMAIN summaries : summaries[i].shift_id = sid}
     IN resp' = Resp("handover", 200, sid, 0, Cardinality(rows), SetToSeq(rows))
  /\ UNCHANGED <<shifts, summaries, logs, tasks, now, procs>>

\* The clock advances between requests.
Tick ==
  /\ now < MaxTime
  /\ now' = now + 1
  /\ UNCHANGED <<shifts, summaries, logs, tasks, resp, procs, nops>>

\* ------------------------------------------------------------------ specs
\* Windows the clients of the sequential specification send.
ReqWindows == {<<0, 3>>, <<1, 2>>, <<0, 1>>, <<2, 1>>}
ReqShiftIds == 1..MaxShifts

Request ==
  \/ \E c \in Caregivers, w \in ReqWindows, kind \in Kinds, ids \in PwidLists :
       CreateShift(c, w[1], w[2], kind, ids, TRUE)
  \/ \E sid \in ReqShiftIds, ids \in PwidLists : AssignPwids(sid, ids)
  \/ GetActiveShifts
  \/ GetAllShifts
  \/ \E w \in ReqWindows : ValidateCoverage(w[1], w[2])
  \/ \E sid \in ReqShiftIds : EndShift(sid)
  \/ \E sid \in ReqShiftIds, c \in Caregivers : EmergencyReplace(sid, c)
  \/ \E sid \in ReqShiftIds : GetHandover(sid)

\* Requests are served one at a time, each handler running to its response.
Next == Request \/ Tick

Spec == Init /\ [][Next]_vars

\* ------------------------------------------------ routine logs and tasks
\* A row of the routinelog table.
LogRow(p, sl, me, mo, inc, notes, t) ==
  [pwid_id |-> p, sleep_quality |-> sl, meals |-> me, mood |-> mo,
   incident |-> inc, notes |-> notes, created_at |-> t]

\* POST /routinelogs: the row is stamped with datetime.utcnow(); notes is the
\* body's text or ''.
CreateRoutinelog(p, sl, me, mo, inc, notes) ==
  /\ Served
  /\ Len(logs) < MaxLogs
  /\ logs' = Append(logs, LogRow(p, sl, me, mo, inc, notes, now))
  /\ resp' = Resp("log", 201, Len(logs) + 1, 0, 0, <<>>)
  /\ UNCHANGED <<shifts, summaries, tasks, now, procs>>

\* POST /routinelogs on a body without one of the keys it indexes: KeyError,
\* answered 500, no row.
CreateRoutinelogMissing ==
  /\ Served
  /\ resp' = Resp("log", 500, 0, 0, 0, <<>>)
  /\ UNCHANGED <<shifts, summaries, logs, tasks, now, procs>>

\* datetime.now() - datetime.utcnow() of the server, in instants.
LocalOffsets == {-1, 0, 1}

\* POST /log: 400 when a required field is missing; otherwise the row is
\* stamped with datetime.now(), the server's local time.
CreateLog(missing, p, sl, me, mo, inc, notes, offset) ==
  /\ Served
  /\ IF missing
     THEN /\ resp' = Resp("create_log", 400, 0, 0, 0, <<>>)
          /\ UNCHANGED logs
     ELSE /\ Len(logs) < MaxLogs
          /\ now + offset \in Instants
          /\ logs' = Append(logs, LogRow(p, sl, me, mo, inc, notes, now + offset))
          /\ resp' = Resp("create_log", 201, Len(logs) + 1, 0, 0, <<>>)
  /\ UNCHANGED <<shifts, summaries, tasks, now, procs>>

\* The row after the assignments update_log makes for the keys of the body,
\* in the handler's order ('sleep_quality' after 'sleep').
Patched(row, patch) ==
  LET has(k) == k \in DOMAIN patch
  IN [row EXCEPT
        !.mood = IF has("mood") THEN patch["mood"] ELSE @,
        !.sleep_quality = IF has("sleep_quality") THEN patch["sleep_quality"]
                          ELSE IF has("sleep") THEN patch["sleep"] ELSE @,
        !.meals = IF has("meals") THEN patch["meals"] ELSE @,
        !.incident = IF has("incident") THEN patch["incident"] ELSE @,
        !.notes = IF has("notes") THEN patch["notes"] ELSE @]

\* PATCH /logs/<log_id>: get_or_404, then the fields the body names are
\* overwritten; created_at and pwid_id stay.
UpdateLog(id, patch) ==
  /\ Served
  /\ IF id \notin DOMAIN logs
     THEN /\ resp' = Resp("update_log", 404, id, 0, 0, <<>>)
          /\ UNCHANGED logs
     ELSE /\ logs' = [logs EXCEPT ![id] = Patched(@, patch)]
          /\ resp' = Resp("update_log", 200, id, 0, 0, <<>>)
  /\ UNCHANGED <<shifts, summaries, tasks, now, procs>>

\* The keyword tables of extract_with_rules, in dict order.
MOOD_PATTERNS ==
  <<<<"Happy", {"happy", "cheerful", "smiling", "joyful", "content", "pleased"}>>,
    <<"Calm", {"calm", "peaceful", "relaxed", "settled", "quiet"}>>,
    <<"Anxious", {"anxious", "worried", "nervous", "restless", "uneasy", "tense"}>>,
    <<"Irritable", {"irritable", "frustrated", "annoyed", "grumpy", "upset"}>>,
    <<"Aggressive", {"aggressive", "angry", "hitting", "violent", "threw", "attacked"}>>>>
SLEEP_PATTERNS ==
  <<<<"Good", {"slept well", "good sleep", "rested", "full night", "peaceful sleep"}>>,
    <<"Disturbed", {"disturbed", "woke up", "interrupted", "restless night"}>>,
    <<"Poor", {"poor sleep", "didn't sleep", "couldn't sleep", "no sleep", "insomnia"}>>>>
MEALS_PATTERNS ==
  <<<<"Normal", {"ate well", "finished", "good appetite", "normal meal", "ate everything"}>>,
    <<"Reduced", {"ate little", "reduced", "half", "small portion", "picked at"}>>,
    <<"Skipped", {"skipped", "refused", "didn't eat", "no meal", "rejected"}>>>>
INCIDENT_PATTERNS ==
  <<<<"Concerning", {"incident", "emergency", "fell", "injury", "hurt", "accident"}>>,
    <<"Minor", {"small issue", "minor", "slight", "briefly"}>>,
    <<"None", {"no incident", "uneventful", "routine", "normal day"}>>>>

\* The observation texts the clients send: none, one of five characters
\* that is shorter once stripped (vertical tabs around 'ok'), and one with
\* a capital and padding.
ObserveTexts == {"", "ok", " Restless night "}

\* What call_llm_optional may return: None (<<>>: no API key, or the call
\* failed), or the JSON object the language model answered, which may lack
\* keys.
LlmAnswers ==
  {<<>>,
   [sleep |-> "Poor", meals |-> "Skipped", mood |-> "Aggressive",
    incident |-> "Concerning", notes |-> "fell at night"],
   [mood |-> "Calm"]}

\* str.strip(): leading and trailing whitespace removed.  The characters
\* str.isspace() holds for, among those a string of the model can hold (up
\* to U+00FF): U+0009..U+000D, U+001C..U+001F, U+0020, U+0085, U+00A0.
Whitespace ==
  {"\t", "\n", "", "\f", "\r", "",
   "", "", "", " ", "", " "}

RECURSIVE LStrip(_)
LStrip(text) ==
  IF Len(text) = 0 THEN text
  ELSE IF SubSeq(text, 1, 1) \in Whitespace THEN LStrip(SubSeq(text, 2, Len(text)))
  ELSE text

RECURSIVE RStrip(_)
RStrip(text) ==
  IF Len(text) = 0 THEN text
  ELSE IF SubSeq(text, Len(text), Len(text)) \in Whitespace
       THEN RStrip(SubSeq(text, 1, Len(text) - 1))
  ELSE text

Strip(text) == RStrip(LStrip(text))

\* str.lower(), one character.
LowerChar(c) ==
  CASE c = "A" -> "a" [] c = "B" -> "b" [] c = "C" -> "c" [] c = "D" -> "d"
    [] c = "E" -> "e" [] c = "F" -> "f" [] c = "G" -> "g" [] c = "H" -> "h"
    [] c = "I" -> "i" [] c = "J" -> "j" [] c = "K" -> "k" [] c = "L" -> "l"
    [] c = "M" -> "m" [] c = "N" -> "n" [] c = "O" -> "o" [] c = "P" -> "p"
    [] c = "Q" -> "q" [] c = "R" -> "r" [] c = "S" -> "s" [] c = "T" -> "t"
    [] c = "U" -> "u" [] c = "V" -> "v" [] c = "W" -> "w" [] c = "X" -> "x"
    [] c = "Y" -> "y" [] c = "Z" -> "z" [] c = "À" -> "à" [] c = "Á" -> "á"
    [] c = "Â" -> "â" [] c = "Ã" -> "ã" [] c = "Ä" -> "ä" [] c = "Å" -> "å"
    [] c = "Æ" -> "æ" [] c = "Ç" -> "ç" [] c = "È" -> "è" [] c = "É" -> "é"
    [] c = "Ê" -> "ê" [] c = "Ë" -> "ë" [] c = "Ì" -> "ì" [] c = "Í" -> "í"
    [] c = "Î" -> "î" [] c = "Ï" -> "ï" [] c = "Ð" -> "ð" [] c = "Ñ" -> "ñ"
    [] c = "Ò" -> "ò" [] c = "Ó" -> "ó" [] c = "Ô" -> "ô" [] c = "Õ" -> "õ"
    [] c = "Ö" -> "ö" [] c = "Ø" -> "ø" [] c = "Ù" -> "ù" [] c = "Ú" -> "ú"
    [] c = "Û" -> "û" [] c = "Ü" -> "ü" [] c = "Ý" -> "ý" [] c = "Þ" -> "þ"
    [] OTHER -> c

RECURSIVE Lower(_)
Lower(text) ==
  IF Len(text) = 0 THEN text
  ELSE LowerChar(SubSeq(text, 1, 1)) \o Lower(SubSeq(text, 2, Len(text)))

\* re.search(pattern, text) for the patterns of the tables, which hold no
\* regular-expression operator: pattern occurs in text.
Search(pattern, text) ==
  \E i \in 1..(Len(text) - Len(pattern) + 1) :
     SubSeq(text, i, i + Len(pattern) - 1) = pattern

\* The label of the first entry of table with a pattern found in
\* text_lower, or 'Unknown'.
ExtractFirst(table, text_lower) ==
  LET hits == {k \in DOMAIN table :
                 \E pattern \in table[k][2] : Search(pattern, text_lower)}
  IN IF hits = {} THEN "Unknown"
     ELSE table[CHOOSE k \in hits : \A j \in hits : k <= j][1]

\* extract_with_rules(text): the fields the handler reads.
extract_with_rules(text) ==
  LET text_lower == Lower(text)
  IN [mood |-> ExtractFirst(MOOD_PATTERNS, text_lower),
      sleep |-> ExtractFirst(SLEEP_PATTERNS, text_lower),
      meals |-> ExtractFirst(MEALS_PATTERNS, text_lower),
      incident |-> ExtractFirst(INCIDENT_PATTERNS, text_lower),
      notes |-> Strip(text)]

\* extract_with_rules over the texts sent, evaluated once.
RuleAnswers == [text \in ObserveTexts |-> extract_with_rules(text)]

\* call_llm(text): the answer of call_llm_optional when it has one, else the
\* rule-based extraction.
call_llm(text, llm) ==
  IF DOMAIN llm # {} THEN llm ELSE RuleAnswers[text]

\* dict.get(key, default)
Get(d, key, default) == IF key \in DOMAIN d THEN d[key] ELSE default

\* process_observation(text): an empty text or one shorter than 5
\* characters once stripped gives 'Unknown' fields and the text as notes;
\* otherwise the fields of call_llm's answer, 'Unknown' for a field it
\* lacks and the stripped text for missing notes.
process_observation(text, llm) ==
  IF text = "" \/ Len(Strip(text)) < 5
  THEN [mood |-> "Unknown", sleep |-> "Unknown", meals |-> "Unknown",
        incident |-> "Unknown", notes |-> text]
  ELSE LET llm_output == call_llm(text, llm)
       IN [mood |-> Get(llm_output, "mood", "Unknown"),
           sleep |-> Get(llm_output, "sleep", "Unknown"),
           meals |-> Get(llm_output, "meals", "Unknown"),
           incident |-> Get(llm_output, "incident", "Unknown"),
           notes |-> Get(llm_output, "notes", Strip(text))]

\* POST /observe: 400 without text or pwid_id; otherwise the fields and the
\* notes of process_observation's result are stored, stamped with
\* datetime.utcnow().
ObserveInput(p, text, llm) ==
  /\ Served
  /\ IF text = "" \/ p = 0
     THEN /\ resp' = Resp("observe", 400, 0, 0, 0, <<>>)
          /\ UNCHANGED logs
     ELSE /\ Len(logs) < MaxLogs
          /\ LET observation == process_observation(text, llm)
             IN logs' = Append(logs, LogRow(p, Get(observation, "sleep", "Unknown"),
                                            Get(observation, "meals", "Unknown"),
                                            Get(observation, "mood", "Unknown"),
                                            Get(observation, "incident", "Unknown"),
                                            Get(observation, "notes", text), now))
          /\ resp' = Resp("observe", 201, Len(logs) + 1, 0, 0, <<>>)
  /\ UNCHANGED <<shifts, summaries, tasks, now, procs>>

\* The id SQLite gives the next row of table tbl: one more than the largest.
NextId(tbl) ==
  IF tbl = <<>> THEN 1
  ELSE 1 + (CHOOSE m \in {tbl[i].id : i \in DOMAIN tbl} :
              \A i \in DOMAIN tbl : tbl[i].id <= m)

\* POST /tasks: 400 when pwid_id or title is missing or falsy (0, '');
\* otherwise a task is created pending.
CreateTask(p, title) ==
  /\ Served
  /\ IF p = 0 \/ title = ""
     THEN /\ resp' = Resp("task", 400, 0, 0, 0, <<>>)
          /\ UNCHANGED tasks
     ELSE /\ Len(tasks) < MaxTasks
          /\ tasks' = Append(tasks, [id |-> NextId(tasks), pwid_id |-> p,
                                     title |-> title, status |-> "pending"])
          /\ resp' = Resp("task", 201, NextId(tasks), 0, 0, <<>>)
  /\ UNCHANGED <<shifts, summaries, logs, now, procs>>

\* POST /tasks/<task_id>/complete: get_or_404, then status 'completed'; a
\* body that is JSON null fails at data.get (500) before the commit.
CompleteTask(id, hasBody) ==
  /\ Served
  /\ LET rows == {i \in DOMAIN tasks : tasks[i].id = id}
     IN IF rows = {}
        THEN /\ resp' = Resp("complete_task", 404, id, 0, 0, <<>>)
             /\ UNCHANGED tasks
        ELSE IF ~hasBody
        THEN /\ resp' = Resp("complete_task", 500, id, 0, 0, <<>>)
             /\ UNCHANGED tasks
        ELSE /\ tasks' = [i \in DOMAIN tasks |->
                            IF i \in rows THEN [tasks[i] EXCEPT !.status = "completed"]
                            ELSE tasks[i]]
             /\ resp' = Resp("complete_task", 200, id, 0, 0, <<>>)
  /\ UNCHANGED <<shifts, summaries, logs, now, procs>>

\* DELETE /tasks/<task_id>: get_or_404, then the row is deleted.
DeleteTask(id) ==
  /\ Served
  /\ IF \A i \in DOMAIN tasks : tasks[i].id # id
     THEN /\ resp' = Resp("delete_task", 404, id, 0, 0, <<>>)
          /\ UNCHANGED tasks
     ELSE /\ tasks' = SelectSeq(tasks, LAMBDA k : k.id # id)
          /\ resp' = Resp("delete_task", 200, id, 0, 0, <<>>)
  /\ UNCHANGED <<shifts, summaries, logs, now, procs>>

\* The routine logs the clients of the handover specification send:
\* sleep_quality, meals, mood, incident, notes.
LogInputs ==
  {<<"Average", "taken", "happy", "no", "Testing handover">>,
   <<"Poor", "skipped", "Aggressive", "yes", "fall">>,
   <<"", "", "Calm", "yes", "">>}
\* The bodies they send to update_log.
LogPatches ==
  {[mood |-> "Aggressive", sleep |-> "Poor", incident |-> "yes", notes |-> "fall"],
   [sleep |-> "Poor", sleep_quality |-> "Good", meals |-> "skipped"]}
HandoverWindows == {<<0, 3>>, <<1, 3>>, <<0, 1>>}
HandoverLists == {<<1>>, <<1, 2>>}
HandoverShiftIds == 1..2
HandoverLogIds == 1..MaxLogs
HandoverTaskIds == 1..2

\* Shifts are created with their recipients, logs and tasks are recorded,
\* changed and removed while the clock advances, and shifts are closed.
NextHandover ==
  \/ \E w \in HandoverWindows, ids \in HandoverLists :
       CreateShift(1, w[1], w[2], "Morning", ids, TRUE)
  \/ \E p \in Pwids, l \in LogInputs :
       CreateRoutinelog(p, l[1], l[2], l[3], l[4], l[5])
  \/ CreateRoutinelogMissing
  \/ \E missing \in BOOLEAN, p \in Pwids, l \in LogInputs, d \in LocalOffsets :
       CreateLog(missing, p, l[1], l[2], l[3], l[4], l[5], d)
  \/ \E id \in HandoverLogIds, patch \in LogPatches : UpdateLog(id, patch)
  \/ \E p \in 0..1, text \in ObserveTexts, llm \in LlmAnswers :
       ObserveInput(p, text, llm)
  \/ \E p \in {0} \cup Pwids, title \in {"", "bath"} : CreateTask(p, title)
  \/ \E id \in HandoverTaskIds, hasBody \in BOOLEAN : CompleteTask(id, hasBody)
  \/ \E id \in HandoverTaskIds : DeleteTask(id)
  \/ \E sid \in HandoverShiftIds : EndShift(sid)
  \/ \E sid \in HandoverShiftIds : EmergencyReplace(sid, 2)
  \/ \E sid \in HandoverShiftIds : GetHandover(sid)
  \/ Tick

SpecHandover == Init /\ [][NextHandover]_vars

\* ------------------------------------------------- concurrent requests
\* Each request runs in its own session; every query reads the committed
\* tables and every commit is one write to them.  A request's steps are its
\* queries and its commit, in program order.
Proc(op, c, ts, te, kind, ids, sid) ==
  [op |-> op, caregiver_id |-> c, ts |-> ts, te |-> te, type |-> kind,
   ids |-> ids, sid |-> sid, pc |-> "start", pwids |-> <<>>, k |-> 0,
   loaded |-> <<>>, status |-> "", ls |-> <<>>, content |-> <<>>,
   code |-> 0, id |-> 0]

InFlight == {i \in DOMAIN procs : procs[i].pc # "done"}

\* A client sends a request while others are being served.
Arrive(r) ==
  /\ Len(procs) < MaxReqs
  /\ Cardinality(InFlight) < MaxInFlight
  /\ r.op = "create" =>
       Cardinality({i \in DOMAIN procs : procs[i].op = "create"}) < MaxShifts
  /\ procs' = Append(procs, r)
  /\ UNCHANGED <<shifts, summaries, logs, tasks, now, resp, nops>>

\* create_shift, lines 19-33: the overlap query and the 409 it may answer.
CreateQuery(i) ==
  /\ i \in DOMAIN procs
  /\ procs[i].op = "create" /\ procs[i].pc = "start"
  /\ LET over == CaregiverOverlapping(shifts, procs[i].caregiver_id,
                                      Iso(procs[i].ts), Iso(procs[i].te))
     IN IF over # {}
        THEN \E j \in over :
               procs' = [procs EXCEPT ![i].pc = "done", ![i].code = 409, ![i].id = j]
        ELSE procs' = [procs EXCEPT ![i].pc = "commit"]
  /\ UNCHANGED <<shifts, summaries, logs, tasks, now, resp, nops>>

\* create_shift, lines 36-52: the row is built, added and committed.
CreateCommit(i) ==
  /\ i \in DOMAIN procs
  /\ procs[i].op = "create" /\ procs[i].pc = "commit"
  /\ shifts' = Append(shifts,
                      NewShift(procs[i].type, Iso(procs[i].ts), Iso(procs[i].te),
                               procs[i].caregiver_id, "Scheduled",
                               ExtendFlush(<<>>, PwidsIn(procs[i].ids))))
  /\ procs' = [procs EXCEPT ![i].pc = "done", ![i].code = 201,
                            ![i].id = Len(shifts) + 1]
  /\ UNCHANGED <<summaries, logs, tasks, now, resp, nops>>

\* assign_pwids, lines 62-64: the shift and the PWID rows are loaded.
AssignLoad(i) ==
  /\ i \in DOMAIN procs
  /\ procs[i].op = "assign" /\ procs[i].pc = "start"
  /\ IF procs[i].sid \notin DOMAIN shifts
     THEN procs' = [procs EXCEPT ![i].pc = "done", ![i].code = 500]
     ELSE LET pwids == PwidsIn(procs[i].ids)
          IN procs' = [procs EXCEPT ![i].pwids = pwids, ![i].k = 1,
                         ![i].pc = IF pwids = <<>> THEN "read" ELSE "validate"]
  /\ UNCHANGED <<shifts, summaries, logs, tasks, now, resp, nops>>

\* assign_pwids, lines 67-82: one turn of the validation loop, one query.
AssignValidate(i) ==
  /\ i \in DOMAIN procs
  /\ procs[i].op = "assign" /\ procs[i].pc = "validate"
  /\ LET p == procs[i].pwids[procs[i].k]
         over == PwidOverlapping(shifts, p, procs[i].sid)
     IN IF over # {}
        THEN \E j \in over :
               procs' = [procs EXCEPT ![i].pc = "done", ![i].code = 409, ![i].id = j]
        ELSE procs' = [procs EXCEPT ![i].k = @ + 1,
                         ![i].pc = IF procs[i].k = Len(procs[i].pwids)
                                   THEN "read" ELSE "validate"]
  /\ UNCHANGED <<shifts, summaries, logs, tasks, now, resp, nops>>

\* assign_pwids, line 84: shift.assigned_pwids is loaded (one SELECT) and
\* extended in memory.
AssignRead(i) ==
  /\ i \in DOMAIN procs
  /\ procs[i].op = "assign" /\ procs[i].pc = "read"
  /\ procs' = [procs EXCEPT ![i].loaded = shifts[procs[i].sid].assigned_pwids,
                            ![i].pc = "commit"]
  /\ UNCHANGED <<shifts, summaries, logs, tasks, now, resp, nops>>

\* The shift_pwid rows the flush inserts: the entities extend() added that
\* were not in the collection when it was loaded.
FlushInserts(loaded, items) ==
  SubSeq(ExtendFlush(loaded, items), Len(loaded) + 1,
         Len(ExtendFlush(loaded, items)))

\* assign_pwids, line 85: the flush inserts the new shift_pwid rows and
\* commits.  A row another request has committed since the load is inserted
\* again: a join table keyed on (shift_id, pwid_id) refuses it (IntegrityError,
\* caught at line 87, 500, nothing stored), one without a key stores it twice.
AssignCommit(i) ==
  /\ i \in DOMAIN procs
  /\ procs[i].op = "assign" /\ procs[i].pc = "commit"
  /\ LET sid == procs[i].sid
         ins == FlushInserts(procs[i].loaded, procs[i].pwids)
         clash == \E k \in DOMAIN ins : ins[k] \in Range(shifts[sid].assigned_pwids)
     IN \/ /\ ~clash
           /\ shifts' = [shifts EXCEPT ![sid].assigned_pwids = @ \o ins]
           /\ procs' = [procs EXCEPT ![i].pc = "done", ![i].code = 200, ![i].id = sid]
        \/ /\ clash
           /\ shifts' = shifts
           /\ procs' = [procs EXCEPT ![i].pc = "done", ![i].code = 500, ![i].id = sid]
        \/ /\ clash
           /\ shifts' = [shifts EXCEPT ![sid].assigned_pwids = @ \o ins]
           /\ procs' = [procs EXCEPT ![i].pc = "done", ![i].code = 200, ![i].id = sid]
  /\ UNCHANGED <<summaries, logs, tasks, now, resp, nops>>

\* Windows and recipient lists the clients of the concurrent specification
\* send: on each pair of these windows both overlap queries agree with
\* a_start < b_end /\ b_start < a_end.
RaceWindows == {<<0, 3>>, <<1, 3>>, <<0, 1>>}
RaceLists == {<<1>>}
RaceShiftIds == 1..2

NextRace ==
  \/ \E c \in Caregivers, w \in RaceWindows, kind \in Kinds :
       Arrive(Proc("create", c, w[1], w[2], kind, <<>>, 0))
  \/ \E sid \in RaceShiftIds, ids \in RaceLists :
       Arrive(Proc("assign", 0, 0, 0, "", ids, sid))
  \/ \E i \in 1..MaxReqs : CreateQuery(i)
  \/ \E i \in 1..MaxReqs : CreateCommit(i)
  \/ \E i \in 1..MaxReqs : AssignLoad(i)
  \/ \E i \in 1..MaxReqs : AssignValidate(i)
  \/ \E i \in 1..MaxReqs : AssignRead(i)
  \/ \E i \in 1..MaxReqs : AssignCommit(i)

SpecRace == Init /\ [][NextRace]_vars

\* ------------------------------------------- closing a shift, step by step
\* end_shift and emergency_replace load the shift, commit the shift table
\* once and then, in generate_handover_summary, load the recipients and for
\* each of them read the logs, read the tasks, look the summary row up and
\* commit the summary table.  A request's steps are its store accesses, in
\* program order; what it has read is request-local.  The unit of work writes
\* an UPDATE only for an attribute whose new value differs from the loaded
\* one.

\* The persisted layout's unique constraint on (shift_id, recipient_id) with
\* no effect: every insert is accepted.
UniqueKeyOff(tbl, sid, p) == TRUE

\* The persisted layout's unique constraint on (shift_id, recipient_id): an
\* insert of a row for (sid, p) is accepted only when the table has none.
UniqueKeyFree(tbl, sid, p) ==
  \A i \in DOMAIN tbl : ~(tbl[i].shift_id = sid /\ tbl[i].pwid_id = p)

\* HandoverSummary.query.filter_by(shift_id=..., pwid_id=...): the rows found.
ExistingSummary(tbl, sid, p) ==
  {r \in DOMAIN tbl : tbl[r].shift_id = sid /\ tbl[r].pwid_id = p}

\* The request moves on to the generation for the rows it loaded.
ToGeneration(pr, pw) ==
  IF pw = <<>> THEN [pr EXCEPT !.pc = "done", !.code = 200]
  ELSE [pr EXCEPT !.pc = "gen_logs", !.pwids = pw, !.k = 1]

\* end_shift, lines 159-161: the shift is loaded (get_or_404).
EndLoad(i) ==
  /\ i \in DOMAIN procs
  /\ procs[i].op = "end" /\ procs[i].pc = "start"
  /\ IF procs[i].sid \notin DOMAIN shifts
     THEN procs' = [procs EXCEPT ![i].pc = "done", ![i].code = 404]
     ELSE procs' = [procs EXCEPT ![i].status = shifts[procs[i].sid].status,
                               ![i].pc = "commit"]
  /\ UNCHANGED <<shifts, summaries, logs, tasks, now, resp, nops>>

\* end_shift, lines 164-165: status is set 'Completed' and committed.
EndCommit(i) ==
  /\ i \in DOMAIN procs
  /\ procs[i].op = "end" /\ procs[i].pc = "commit"
  /\ shifts' = IF procs[i].status = "Completed" THEN shifts
               ELSE [shifts EXCEPT ![procs[i].sid].status = "Completed"]
  /\ procs' = [procs EXCEPT ![i].pc = "gen_load"]
  /\ UNCHANGED <<summaries, logs, tasks, now, resp, nops>>

\* emergency_replace, lines 177-198: the original is loaded (get_or_404),
\* its status set, utcnow() read and the successor built.
ReplaceLoad(i) ==
  /\ i \in DOMAIN procs
  /\ procs[i].op = "replace" /\ procs[i].pc = "start"
  /\ IF procs[i].sid \notin DOMAIN shifts
     THEN procs' = [procs EXCEPT ![i].pc = "done", ![i].code = 404]
     ELSE procs' = [procs EXCEPT ![i].status = shifts[procs[i].sid].status,
                               ![i].ts = now, ![i].pc = "read"]
  /\ UNCHANGED <<shifts, summaries, logs, tasks, now, resp, nops>>

\* emergency_replace, lines 201-202: the original's recipients are loaded and
\* appended to the successor's collection.
ReplaceRead(i) ==
  /\ i \in DOMAIN procs
  /\ procs[i].op = "replace" /\ procs[i].pc = "read"
  /\ \E pw \in LoadOrders(shifts[procs[i].sid].assigned_pwids) :
       procs' = [procs EXCEPT ![i].loaded = pw, ![i].pc = "commit"]
  /\ UNCHANGED <<shifts, summaries, logs, tasks, now, resp, nops>>

\* emergency_replace, lines 204-205: the original's new status (when it
\* differs from the loaded one) and the successor with its recipients are
\* written in one commit.
ReplaceCommit(i) ==
  /\ i \in DOMAIN procs
  /\ procs[i].op = "replace" /\ procs[i].pc = "commit"
  /\ LET sid == procs[i].sid
     IN /\ Len(shifts) < MaxShifts
        /\ shifts' = Append(IF procs[i].status = "Emergency-Reassigned" THEN shifts
                            ELSE [shifts EXCEPT ![sid].status = "Emergency-Reassigned"],
                            NewShift(shifts[sid].type, Adapted(procs[i].ts),
                                     shifts[sid].end_time, procs[i].caregiver_id,
                                     "Active", ExtendFlush(<<>>, procs[i].loaded)))
        /\ procs' = [procs EXCEPT ![i].id = Len(shifts) + 1, ![i].pc = "gen_load"]
  /\ UNCHANGED <<summaries, logs, tasks, now, resp, nops>>

\* generate_handover_summary, lines 7-13: the shift is loaded again and its
\* recipients are loaded.
GenLoad(i) ==
  /\ i \in DOMAIN procs
  /\ procs[i].pc = "gen_load"
  /\ \E pw \in LoadOrders(shifts[procs[i].sid].assigned_pwids) :
       procs' = [procs EXCEPT ![i] = ToGeneration(@, pw)]
  /\ UNCHANGED <<shifts, summaries, logs, tasks, now, resp, nops>>

\* generate_handover_summary, lines 17-29: the recipient's logs from the
\* shift's start up to utcnow() are read.
GenLogs(i) ==
  /\ i \in DOMAIN procs
  /\ procs[i].pc = "gen_logs"
  /\ procs' = [procs EXCEPT
                 ![i].ls = WindowLogs(logs, procs[i].pwids[procs[i].k],
                                      shifts[procs[i].sid], now),
                 ![i].pc = "gen_tasks"]
  /\ UNCHANGED <<shifts, summaries, logs, tasks, now, resp, nops>>

\* generate_handover_summary, lines 31-49: the recipient's pending tasks are
\* read and summary_content is built.
GenTasks(i) ==
  /\ i \in DOMAIN procs
  /\ procs[i].pc = "gen_tasks"
  /\ \E sl \in SleepChoicesOf(procs[i].ls) :
       procs' = [procs EXCEPT
                   ![i].content = SummaryOf(procs[i].ls,
                                            PendingTitles(tasks, procs[i].pwids[procs[i].k]),
                                            sl),
                   ![i].pc = "gen_query"]
  /\ UNCHANGED <<shifts, summaries, logs, tasks, now, resp, nops>>

\* generate_handover_summary, line 52: the existing row is looked up; the
\* content it holds is what the unit of work compares the new content with.
GenQuery(i) ==
  /\ i \in DOMAIN procs
  /\ procs[i].pc = "gen_query"
  /\ LET ex == ExistingSummary(summaries, procs[i].sid, procs[i].pwids[procs[i].k])
     IN procs' = [procs EXCEPT
                    ![i].pc = IF ex = {} THEN "gen_insert" ELSE "gen_update",
                    ![i].ls = IF ex = {} THEN <<>>
                              ELSE <<summaries[CHOOSE r \in ex : \A q \in ex : r <= q].content>>]
  /\ UNCHANGED <<shifts, summaries, logs, tasks, now, resp, nops>>

\* The request goes on after the commit for recipient pwids[k].
AfterSummary(pr) ==
  IF pr.k = Len(pr.pwids) THEN [pr EXCEPT !.pc = "done", !.code = 200]
  ELSE [pr EXCEPT !.pc = "gen_logs", !.k = @ + 1]

\* generate_handover_summary, lines 53-65: the found row is overwritten
\* (when the content differs from the one loaded), or a new row is added,
\* and the session is committed.  The insert of a second row for the key is
\* refused by the store and the request ends with 500.
GenCommit(i) ==
  /\ i \in DOMAIN procs
  /\ procs[i].pc \in {"gen_update", "gen_insert"}
  /\ LET sid == procs[i].sid
         p == procs[i].pwids[procs[i].k]
         content == procs[i].content
         ex == ExistingSummary(summaries, sid, p)
     IN IF procs[i].pc = "gen_update"
        THEN /\ summaries' = IF procs[i].ls = <<content>> THEN summaries
                             ELSE [summaries EXCEPT
                                     ![CHOOSE r \in ex : \A q \in ex : r <= q].content = content]
             /\ procs' = [procs EXCEPT ![i] = AfterSummary(@)]
        ELSE IF UniqueKeyFree(summaries, sid, p)
        THEN /\ summaries' = Append(summaries,
                  [shift_id |-> sid, pwid_id |-> p, content |-> content])
             /\ procs' = [procs EXCEPT ![i] = AfterSummary(@)]
        ELSE /\ procs' = [procs EXCEPT ![i].pc = "done", ![i].code = 500]
             /\ UNCHANGED summaries
  /\ UNCHANGED <<shifts, logs, tasks, now, resp, nops>>

\* The store fails the first commit of end_shift or emergency_replace: the
\* request ends with 500 and nothing of it is persisted.
CommitFail(i) ==
  /\ i \in DOMAIN procs
  /\ procs[i].op \in {"end", "replace"} /\ procs[i].pc = "commit"
  /\ procs' = [procs EXCEPT ![i].pc = "done", ![i].code = 500]
  /\ UNCHANGED <<shifts, summaries, logs, tasks, now, resp, nops>>

\* A failed summary commit that also takes the shift's transition back.
GenFailRollback(i) ==
  /\ i \in DOMAIN procs
  /\ procs[i].pc \in {"gen_update", "gen_insert"}
  /\ procs' = [procs EXCEPT ![i].pc = "done", ![i].code = 500]
  /\ shifts' = [shifts EXCEPT ![procs[i].sid].status = "Active"]
  /\ UNCHANGED <<summaries, logs, tasks, now, resp, nops>>

\* The store fails a summary commit: the exception leaves the handler, the
\* request ends with 500, and what was committed before stays.
GenFail(i) ==
  /\ i \in DOMAIN procs
  /\ procs[i].pc \in {"gen_update", "gen_insert"}
  /\ procs' = [procs EXCEPT ![i].pc = "done", ![i].code = 500]
  /\ UNCHANGED <<shifts, summaries, logs, tasks, now, resp, nops>>

CloseLists == {<<1>>, <<1, 2>>}
CloseShiftIds == 1..2

\* Shifts are created one request at a time; then up to MaxCloseReqs
\* end_shift and emergency_replace requests are served concurrently, step
\* by step.
NextClose ==
  \/ \E ids \in CloseLists :
       procs = <<>> /\ CreateShift(1, 0, MaxTime, "Morning", ids, TRUE)
  \/ \E sid \in CloseShiftIds :
       Len(procs) < MaxCloseReqs /\ Arrive(Proc("end", 0, 0, 0, "", <<>>, sid))
  \/ \E sid \in CloseShiftIds :
       Len(procs) < MaxCloseReqs /\ Arrive(Proc("replace", 2, 0, 0, "", <<>>, sid))
  \/ \E i \in 1..MaxReqs : EndLoad(i)
  \/ \E i \in 1..MaxReqs : EndCommit(i)
  \/ \E i \in 1..MaxReqs : ReplaceLoad(i)
  \/ \E i \in 1..MaxReqs : ReplaceRead(i)
  \/ \E i \in 1..MaxReqs : ReplaceCommit(i)
  \/ \E i \in 1..MaxReqs : GenLoad(i)
  \/ \E i \in 1..MaxReqs : GenLogs(i)
  \/ \E i \in 1..MaxReqs : GenTasks(i)
  \/ \E i \in 1..MaxReqs : GenQuery(i)
  \/ \E i \in 1..MaxReqs : GenCommit(i)
  \/ \E i \in 1..MaxReqs : CommitFail(i)
  \/ \E i \in 1..MaxReqs : GenFail(i)

SpecClose == Init /\ [][NextClose]_vars


\* ------------------------------------------- listings, step by step
\* A listing loads the rows of its query, sets status on the loaded rows
\* that were Scheduled and commits: the flush writes
\* UPDATE shift SET status = 'Active' WHERE id = ? for each of them.

\* get_active_shifts lines 94-105, get_all_shifts lines 114-123: the query
\* and the rows the loop marks; without a marked row nothing is committed.
ListQuery(i) ==
  /\ i \in DOMAIN procs
  /\ procs[i].op \in {"active", "all"} /\ procs[i].pc = "start"
  /\ LET marked == {j \in DOMAIN shifts :
                      /\ ContainsNow(shifts[j], now)
                      /\ shifts[j].status = "Scheduled"}
     IN procs' = [procs EXCEPT
                    ![i].ids = SetToSeq(marked),
                    ![i].pc = IF marked = {} THEN "done" ELSE "commit",
                    ![i].code = IF marked = {} THEN 200 ELSE 0]
  /\ UNCHANGED <<shifts, summaries, logs, tasks, now, resp, nops>>

\* get_active_shifts lines 106-107, get_all_shifts line 124: the commit.
ListCommit(i) ==
  /\ i \in DOMAIN procs
  /\ procs[i].op \in {"active", "all"} /\ procs[i].pc = "commit"
  /\ shifts' = [j \in DOMAIN shifts |->
                  IF j \in Range(procs[i].ids)
                  THEN [shifts[j] EXCEPT !.status = "Active"] ELSE shifts[j]]
  /\ procs' = [procs EXCEPT ![i].pc = "done", ![i].code = 200]
  /\ UNCHANGED <<summaries, logs, tasks, now, resp, nops>>

ListingShiftIds == 1..2

\* Shifts are created one request at a time; then listings, end_shift and
\* emergency_replace requests are served concurrently, step by step.
NextListing ==
  \/ \E c \in Caregivers :
       procs = <<>> /\ CreateShift(c, 0, MaxTime, "Morning", <<1>>, TRUE)
  \/ \E op \in {"active", "all"} :
       Len(procs) < MaxCloseReqs /\ Arrive(Proc(op, 0, 0, 0, "", <<>>, 0))
  \/ \E sid \in ListingShiftIds :
       Len(procs) < MaxCloseReqs /\ Arrive(Proc("end", 0, 0, 0, "", <<>>, sid))
  \/ \E sid \in ListingShiftIds :
       Len(procs) < MaxCloseReqs /\ Arrive(Proc("replace", 2, 0, 0, "", <<>>, sid))
  \/ \E i \in 1..MaxReqs : ListQuery(i)
  \/ \E i \in 1..MaxReqs : ListCommit(i)
  \/ \E i \in 1..MaxReqs : EndLoad(i)
  \/ \E i \in 1..MaxReqs : EndCommit(i)
  \/ \E i \in 1..MaxReqs : ReplaceLoad(i)
  \/ \E i \in 1..MaxReqs : ReplaceRead(i)
  \/ \E i \in 1..MaxReqs : ReplaceCommit(i)
  \/ \E i \in 1..MaxReqs : GenLoad(i)
  \/ \E i \in 1..MaxReqs : GenLogs(i)
  \/ \E i \in 1..MaxReqs : GenTasks(i)
  \/ \E i \in 1..MaxReqs : GenQuery(i)
  \/ \E i \in 1..MaxReqs : GenCommit(i)

SpecListing == Init /\ [][NextListing]_vars

\* --------------------------------------- generation over a recorded store
\* The routinelog tables that up to MaxStoredLogs calls of create_routinelog
\* and create_log for recipients 1..NumPwids at instant 1 leave: rows in
\* insertion order, each stamped with the UTC time of its call or with the
\* local time of a server one instant ahead.
StoredLogs ==
  LET rows == {LogRow(p, l[1], l[2], l[3], l[4], l[5], 1 + d) :
                 p \in Pwids, l \in LogInputs, d \in LocalOffsets \cap Nat}
  IN UNION {[1..n -> rows] : n \in 0..MaxStoredLogs}

\* The store at instant 1 after create_shift for caregiver 1 with both
\* recipients, and the routine logs recorded so far.
InitStored ==
  /\ shifts = <<NewShift("Morning", Iso(0), Iso(MaxTime), 1, "Scheduled", <<1, 2>>)>>
  /\ summaries = <<>>
  /\ logs \in StoredLogs
  /\ tasks = <<>>
  /\ now = 1
  /\ resp = NoResp
  /\ procs = <<>>
  /\ nops = 0

\* The shift is closed (and closed again) over the recorded logs.
NextSummary ==
  \/ EndShift(1)
  \/ EmergencyReplace(1, 2)
  \/ GetHandover(1)
  \/ Tick

SpecSummary == InitStored /\ [][NextSummary]_vars

\* ------------------------------------------- requests that lack an input
\* The keys each handler reads with data[...].
CreateKeys == {"caregiver_id", "start_time", "end_time", "type"}
AssignKeys == {"shift_id", "pwid_ids"}
ReplaceKeys == {"shift_id", "new_caregiver_id"}

\* create_shift that fills in a default for the key the body lacks.
CreateShiftDefaulting(key, c, ts, te) ==
  /\ Served
  /\ Len(shifts) < MaxShifts
  /\ shifts' = Append(shifts, NewShift("", Iso(ts), Iso(te), c, "Scheduled", <<>>))
  /\ resp' = Resp("create", 201, Len(shifts) + 1, 0, 0, <<>>)
  /\ UNCHANGED <<summaries, logs, tasks, now, procs>>

\* POST /shifts/create with a body that lacks key (c, ts, te are the values
\* of the keys it has): data[key] raises KeyError inside the try block and
\* the except clause answers 500.  'type' is read after the overlap query,
\* so a request without it is answered 409 when the query matches a row.
CreateShiftMissing(key, c, ts, te) ==
  /\ Served
  /\ LET over == CaregiverOverlapping(shifts, c, Iso(ts), Iso(te))
     IN IF key = "type" /\ over # {}
        THEN \E k \in over : resp' = Resp("create", 409, k, 0, 0, <<>>)
        ELSE resp' = Resp("create", 500, 0, 0, 0, <<>>)
  /\ UNCHANGED <<shifts, summaries, logs, tasks, now, procs>>

\* POST /shifts/assign_pwids with a body that lacks key: KeyError (or the
\* NotFound of get_or_404 when 'pwid_ids' is missing and the shift absent)
\* inside the try block, answered 500.
AssignPwidsMissing(key, sid) ==
  /\ Served
  /\ resp' = Resp("assign", 500, 0, 0, 0, <<>>)
  /\ UNCHANGED <<shifts, summaries, logs, tasks, now, procs>>

\* POST /shifts/end with a body that lacks 'shift_id': KeyError before the
\* shift is loaded, answered 500 by the framework.
EndShiftMissing ==
  /\ Served
  /\ resp' = Resp("end", 500, 0, 0, 0, <<>>)
  /\ UNCHANGED <<shifts, summaries, logs, tasks, now, procs>>

\* POST /shifts/emergency_replace with a body that lacks key: both keys are
\* read before the shift is loaded; KeyError, answered 500 by the framework.
EmergencyReplaceMissing(key, sid) ==
  /\ Served
  /\ resp' = Resp("replace", 500, 0, 0, 0, <<>>)
  /\ UNCHANGED <<shifts, summaries, logs, tasks, now, procs>>

InvalidWindows == {<<0, 3>>, <<1, 2>>}
InvalidLists == {<<1>>, <<1, 2>>}
InvalidShiftIds == 1..2

\* Complete and incomplete requests, served one at a time.
NextInvalid ==
  \/ \E c \in Caregivers, w \in InvalidWindows, ids \in InvalidLists :
       CreateShift(c, w[1], w[2], "Morning", ids, TRUE)
  \/ \E sid \in InvalidShiftIds : EndShift(sid)
  \/ \E key \in CreateKeys, c \in Caregivers, w \in InvalidWindows :
       CreateShiftMissing(key, c, w[1], w[2])
  \/ \E key \in AssignKeys, sid \in InvalidShiftIds : AssignPwidsMissing(key, sid)
  \/ EndShiftMissing
  \/ \E key \in ReplaceKeys, sid \in InvalidShiftIds : EmergencyReplaceMissing(key, sid)

SpecInvalid == Init /\ [][NextInvalid]_vars

\* ------------------------------------------------------------------ claims
\* The instant a stored time string denotes.
Instant(s) == FromIso(s)

\* a_start < b_end AND b_start < a_end on the instants of two windows.
OpenOverlap(as, ae, bs, be) == as < be /\ bs < ae

RowsOverlap(a, b) ==
  OpenOverlap(Instant(a.start_time), Instant(a.end_time),
              Instant(b.start_time), Instant(b.end_time))

Live(sh) == sh.status \in LiveStatus
WellFormed(w) == w[1] < w[2]

\* C1 (I1): no two distinct Scheduled/Active shifts of one caregiver have
\* overlapping windows.
C1_NoCaregiverDoubleBooking ==
  \A i \in DOMAIN shifts, j \in DOMAIN shifts :
    (i < j /\ shifts[i].caregiver_id = shifts[j].caregiver_id
           /\ Live(shifts[i]) /\ Live(shifts[j]))
      => ~RowsOverlap(shifts[i], shifts[j])

\* C2 (I2): no recipient is a member of two distinct Scheduled/Active shifts
\* whose windows overlap.
C2_NoRecipientDoubleBooking ==
  \A i \in DOMAIN shifts, j \in DOMAIN shifts :
    (i < j /\ Live(shifts[i]) /\ Live(shifts[j])
           /\ Range(shifts[i].assigned_pwids) \cap Range(shifts[j].assigned_pwids) # {})
      => ~RowsOverlap(shifts[i], shifts[j])

\* C3 (I3): with requests served one at a time, a shift's status changes only
\* Scheduled->Active by a listing, Scheduled|Active->Completed by end_shift,
\* Scheduled|Active->Emergency-Reassigned by emergency_replace; the two last
\* statuses are terminal.
C3_LegalMove(old, new, op) ==
  \/ (old = "Scheduled" /\ new = "Active" /\ op \in {"active", "all"})
  \/ (old \in LiveStatus /\ new = "Completed" /\ op = "end")
  \/ (old \in LiveStatus /\ new = "Emergency-Reassigned" /\ op = "replace")

C3_OnlyLegalTransitions ==
  [][\A i \in DOMAIN shifts :
       shifts'[i].status # shifts[i].status
         => C3_LegalMove(shifts[i].status, shifts'[i].status, resp'.op)]_vars

\* C4: two concurrent create_shift calls for one caregiver with overlapping
\* windows are never both persisted, and one of them succeeds when no other
\* shift of the caregiver stands in the way.
C4_OneCreateWins ==
  \A i \in DOMAIN procs, j \in DOMAIN procs :
    (/\ i < j
     /\ procs[i].op = "create" /\ procs[j].op = "create"
     /\ procs[i].pc = "done" /\ procs[j].pc = "done"
     /\ procs[i].caregiver_id = procs[j].caregiver_id
     /\ OpenOverlap(procs[i].ts, procs[i].te, procs[j].ts, procs[j].te))
      => /\ ~(procs[i].code = 201 /\ procs[j].code = 201)
         /\ (\A k \in DOMAIN shifts :
               (shifts[k].caregiver_id = procs[i].caregiver_id
                /\ k \notin {procs[i].id, procs[j].id})
                 => /\ ~OpenOverlap(Instant(shifts[k].start_time),
                                    Instant(shifts[k].end_time),
                                    procs[i].ts, procs[i].te)
                    /\ ~OpenOverlap(Instant(shifts[k].start_time),
                                    Instant(shifts[k].end_time),
                                    procs[j].ts, procs[j].te))
              => (procs[i].code = 201 \/ procs[j].code = 201)

\* C5: create_shift for caregiver c and a well-formed window w answers
\* Conflict exactly when c has a Scheduled/Active shift whose window overlaps
\* w under the open-interval rule, and succeeds otherwise (stated over stores
\* in which every shift's window is well-formed too).
C5_ConflictIffOverlap ==
  [][\A c \in Caregivers, w \in ReqWindows, kind \in Kinds, ids \in PwidLists :
       (/\ WellFormed(w)
        /\ \A i \in DOMAIN shifts :
             Instant(shifts[i].start_time) < Instant(shifts[i].end_time)
        /\ CreateShift(c, w[1], w[2], kind, ids, TRUE))
         => LET clash == \E i \in DOMAIN shifts :
                           /\ shifts[i].caregiver_id = c
                           /\ Live(shifts[i])
                           /\ OpenOverlap(Instant(shifts[i].start_time),
                                          Instant(shifts[i].end_time), w[1], w[2])
            IN /\ (resp'.code = 409) <=> clash
               /\ (resp'.code = 201) <=> ~clash]_vars

\* C6: create_shift with recipients answers Conflict, and persists nothing,
\* when a requested recipient already belongs to a Scheduled/Active shift
\* whose window overlaps the new window.
C6_CreateValidatesRecipients ==
  [][\A c \in Caregivers, w \in ReqWindows, kind \in Kinds, ids \in PwidLists :
       (/\ CreateShift(c, w[1], w[2], kind, ids, TRUE)
        /\ \E p \in Range(ids), i \in DOMAIN shifts :
             /\ p \in Range(shifts[i].assigned_pwids)
             /\ Live(shifts[i])
             /\ OpenOverlap(Instant(shifts[i].start_time),
                            Instant(shifts[i].end_time), w[1], w[2]))
         => (resp'.code = 409 /\ shifts' = shifts)]_vars

\* The shifts other than sid in which recipient p is double-booked against
\* sid's window.
C7_Clashing(p, sid) ==
  {j \in DOMAIN shifts :
     /\ j # sid
     /\ p \in Range(shifts[j].assigned_pwids)
     /\ Live(shifts[j])
     /\ RowsOverlap(shifts[j], shifts[sid])}

\* C7: assign_recipients answers Conflict, naming a clashing shift, whenever
\* a requested recipient is a member of another Scheduled/Active shift whose
\* window overlaps the target's (also when it lies strictly inside it).
C7_AssignDetectsOverlap ==
  [][\A sid \in ReqShiftIds, ids \in PwidLists :
       (/\ AssignPwids(sid, ids)
        /\ sid \in DOMAIN shifts
        /\ \E p \in Range(ids) : C7_Clashing(p, sid) # {})
         => /\ resp'.code = 409
            /\ \E p \in Range(ids) : resp'.id \in C7_Clashing(p, sid)]_vars

\* C8: assign_recipients is all-or-nothing: when a recipient of the batch
\* is double-booked against the target's window the call answers Conflict and
\* every shift's recipient collection is what it was before the call.
C8_AssignAllOrNothing ==
  [][\A sid \in ReqShiftIds, ids \in PwidLists :
       (/\ AssignPwids(sid, ids)
        /\ sid \in DOMAIN shifts
        /\ \E p \in Range(ids) : C7_Clashing(p, sid) # {})
         => /\ resp'.code = 409
            /\ \A i \in DOMAIN shifts :
                 shifts'[i].assigned_pwids = shifts[i].assigned_pwids]_vars

\* A call of assign_pwids that answers 409 leaves the shift table and the
\* summary table as they were: the validation loop returns before extend().
AssignConflictFrame ==
  [][(nops' # nops /\ resp'.op = "assign" /\ resp'.code = 409)
       => (shifts' = shifts /\ summaries' = summaries)]_vars

\* C9: after a successful assign_recipients(shift, ids) the shift's recipient
\* collection holds every requested id and every recipient assigned before,
\* each exactly once.
C9_Occurrences(rows, p) == Cardinality({k \in DOMAIN rows : rows[k] = p})

C9_AssignRoundTrip ==
  [][\A sid \in ReqShiftIds, ids \in PwidLists :
       (AssignPwids(sid, ids) /\ resp'.code = 200)
         => /\ resp'.ids = shifts'[sid].assigned_pwids
            /\ \A p \in Range(ids) \cup Range(shifts[sid].assigned_pwids) :
                 C9_Occurrences(shifts'[sid].assigned_pwids, p) = 1]_vars

\* C10: two concurrent assign_recipients calls that attach one recipient to
\* two different Scheduled/Active shifts with overlapping windows (shifts of
\* two caregivers) do not both succeed.
C10_OneAssignWins ==
  \A i \in DOMAIN procs, j \in DOMAIN procs :
    (/\ i < j
     /\ procs[i].op = "assign" /\ procs[j].op = "assign"
     /\ procs[i].pc = "done" /\ procs[j].pc = "done"
     /\ procs[i].sid # procs[j].sid
     /\ procs[i].sid \in DOMAIN shifts /\ procs[j].sid \in DOMAIN shifts
     /\ shifts[procs[i].sid].caregiver_id # shifts[procs[j].sid].caregiver_id
     /\ Range(procs[i].pwids) \cap Range(procs[j].pwids) # {}
     /\ Live(shifts[procs[i].sid]) /\ Live(shifts[procs[j].sid])
     /\ RowsOverlap(shifts[procs[i].sid], shifts[procs[j].sid]))
      => ~(procs[i].code = 200 /\ procs[j].code = 200)
\* The Scheduled shifts of table tbl whose window holds instant t.
C11_Due(tbl, t) ==
  {i \in DOMAIN tbl : /\ tbl[i].status = "Scheduled"
                       /\ Instant(tbl[i].start_time) <= t
                       /\ t <= Instant(tbl[i].end_time)}

\* C11: right after either listing returns at instant now no Scheduled shift
\* has a window holding now: the listing flipped every such shift, and only
\* those, to Active (so both listings flip the same set).
C11_LazyActivation ==
  [][(nops' # nops /\ resp'.op \in {"active", "all"})
       => /\ C11_Due(shifts', now) = {}
          /\ shifts' = [i \in DOMAIN shifts |->
                          IF i \in C11_Due(shifts, now)
                          THEN [shifts[i] EXCEPT !.status = "Active"]
                          ELSE shifts[i]]]_vars

\* A listing has just flipped a shift that starts at now: every shift is
\* Scheduled or Active (no successor exists), and one that starts at now is
\* Active.
C11_Witness ==
  /\ resp.op \in {"active", "all"}
  /\ \A i \in DOMAIN shifts : shifts[i].status \in LiveStatus
  /\ \E i \in DOMAIN shifts :
       shifts[i].status = "Active" /\ Instant(shifts[i].start_time) = now

\* The rows of the summary table for shift sid and recipient p.
SummaryRows(tbl, sid, p) ==
  {i \in DOMAIN tbl : tbl[i].shift_id = sid /\ tbl[i].pwid_id = p}

\* C12: after end_shift answers 200 the shift is Completed, every recipient
\* assigned to it has a summary (also one with no log in the window), and
\* summaries_generated is the number of assigned recipients.
C12_EndShiftSummaries ==
  [][(nops' # nops /\ resp'.op = "end" /\ resp'.code = 200)
       => LET sid == resp'.id
          IN /\ shifts'[sid].status = "Completed"
             /\ \A p \in Range(shifts'[sid].assigned_pwids) :
                  SummaryRows(summaries', sid, p) # {}
             /\ resp'.n = Cardinality(Range(shifts'[sid].assigned_pwids))]_vars

\* end_shift has closed a shift with two recipients, one with logs in the
\* window and one with none, and reported two summaries.
C12_Witness ==
  /\ resp.op = "end" /\ resp.code = 200 /\ resp.n = 2
  /\ \E i, j \in DOMAIN summaries :
       /\ summaries[i].shift_id = resp.id /\ summaries[j].shift_id = resp.id
       /\ summaries[i].content.mood_trend # <<>>
       /\ summaries[j].content.mood_trend = <<>>

\* C13: after any sequence of end_shift and emergency_replace calls the
\* summary table has at most one row per (shift, recipient): a generation
\* adds a row only for a pair that had none and keeps every row's key.
C13_OneSummaryPerPair ==
  [][(nops' # nops /\ resp'.op \in {"end", "replace"} /\ resp'.code = 200)
       => /\ \A i, j \in DOMAIN summaries' :
               (/\ summaries'[i].shift_id = summaries'[j].shift_id
                /\ summaries'[i].pwid_id = summaries'[j].pwid_id) => i = j
          /\ \A i \in DOMAIN summaries :
               /\ summaries'[i].shift_id = summaries[i].shift_id
               /\ summaries'[i].pwid_id = summaries[i].pwid_id
          /\ Len(summaries') - Len(summaries) =
               Cardinality({p \in Range(shifts[resp'.id].assigned_pwids) :
                              SummaryRows(summaries, resp'.id, p) = {}})]_vars

\* Shift 1 was replaced (its successor is shift 2) and then ended: its
\* summary was generated twice, the second time over a later window with a
\* log in it, and the table holds the one overwritten row.
C13_Witness ==
  /\ resp.op = "end" /\ resp.code = 200 /\ resp.id = 1
  /\ Len(shifts) = 2 /\ shifts[2].start_time = Adapted(FromIso(shifts[2].start_time))
  /\ Len(summaries) = 1 /\ summaries[1].shift_id = 1
  /\ summaries[1].content.mood_trend # <<>>
  /\ \E k \in DOMAIN logs : logs[k].created_at > FromIso(shifts[2].start_time)

TerminalStatus == {"Completed", "Emergency-Reassigned"}

\* C15 (I4): a summary row exists only for a shift whose status end_shift or
\* emergency_replace has set to Completed or Emergency-Reassigned (a status
\* no handler ever takes back).
C15_SummaryOnlyAfterClose ==
  /\ \A i \in DOMAIN summaries :
       /\ summaries[i].shift_id \in DOMAIN shifts
       /\ shifts[summaries[i].shift_id].status \in TerminalStatus

\* A summary has been written for a closed shift while another shift, still
\* Scheduled or Active, holds recipients and has none.
C15_Witness ==
  /\ summaries # <<>>
  /\ \E i \in DOMAIN shifts :
       /\ shifts[i].status \in LiveStatus
       /\ shifts[i].assigned_pwids # <<>>
       /\ \A k \in DOMAIN summaries : summaries[k].shift_id # i

\* C16: for an assigned recipient with no log in the window the summary
\* end_shift writes has sleep label "No Data", meal compliance "0/0 taken"
\* and an empty mood trend.
C16_ZeroLogSummary ==
  [][(nops' # nops /\ resp'.op = "end" /\ resp'.code = 200)
       => \A p \in Range(shifts[resp'.id].assigned_pwids) :
            WindowLogs(logs, p, shifts[resp'.id], now) = <<>>
              => \A i \in SummaryRows(summaries', resp'.id, p) :
                   /\ summaries'[i].content.sleep_quality = "No Data"
                   /\ summaries'[i].content.meals_summary = <<0, 0, "taken">>
                   /\ summaries'[i].content.mood_trend = <<>>]_vars

\* C17: emergency_replace(shift, c) on a Scheduled or Active shift leaves the
\* original Emergency-Reassigned and a distinct new Active shift of caregiver
\* c from now to the original's end with the original's recipients; it
\* returns both ids, and every recipient of the original has a summary.
C17_EmergencyReplaceEffect ==
  [][(nops' # nops /\ resp'.op = "replace" /\ resp'.code = 200)
       => \A sid \in ReqShiftIds, c \in Caregivers :
            (/\ sid \in DOMAIN shifts
             /\ shifts[sid].status \in LiveStatus
             /\ EmergencyReplace(sid, c))
              => LET nid == resp'.id2
                 IN /\ resp'.id = sid
                    /\ nid \in DOMAIN shifts' /\ nid \notin DOMAIN shifts
                    /\ shifts'[sid].status = "Emergency-Reassigned"
                    /\ shifts'[nid].status = "Active"
                    /\ shifts'[nid].caregiver_id = c
                    /\ FromIso(shifts'[nid].start_time) = now
                    /\ shifts'[nid].end_time = shifts[sid].end_time
                    /\ Range(shifts'[nid].assigned_pwids)
                         = Range(shifts[sid].assigned_pwids)
                    /\ \A p \in Range(shifts[sid].assigned_pwids) :
                         SummaryRows(summaries', sid, p) # {}]_vars

\* A shift with two recipients was replaced after its start: the successor
\* starts later than the original and holds both recipients.
C17_Witness ==
  /\ resp.op = "replace" /\ resp.code = 200
  /\ shifts[resp.id].status = "Emergency-Reassigned"
  /\ FromIso(shifts[resp.id2].start_time) > FromIso(shifts[resp.id].start_time)
  /\ Cardinality(Range(shifts[resp.id2].assigned_pwids)) = 2

\* C20: find_uncovered(window) returns exactly the active recipients for
\* whom no Scheduled/Active shift includes the recipient and contains the
\* window (shift.start <= window.start and shift.end >= window.end).
C20_UncoveredExactly ==
  [][(nops' # nops /\ resp'.op = "coverage")
       => \A w \in ReqWindows :
            ValidateCoverage(w[1], w[2])
              => resp'.ids = SetToSeq(
                   {p \in ActivePwids :
                      ~\E i \in DOMAIN shifts :
                         /\ p \in Range(shifts[i].assigned_pwids)
                         /\ Live(shifts[i])
                         /\ Instant(shifts[i].start_time) <= w[1]
                         /\ w[2] <= Instant(shifts[i].end_time)})]_vars

\* C14: under every interleaving of concurrent generations for one shift the
\* summary table holds at most one row per (shift_id, recipient_id).
C14_UniqueSummaryUnderRace ==
  \A i, j \in DOMAIN summaries :
     (/\ summaries[i].shift_id = summaries[j].shift_id
      /\ summaries[i].pwid_id = summaries[j].pwid_id) => i = j

\* Two generations for one shift looked up the same recipient before either
\* wrote: one has inserted the row and finished, the other is about to
\* insert a row for the same key.
C14_Witness ==
  \E i, j \in DOMAIN procs :
     /\ i # j /\ procs[i].sid = procs[j].sid
     /\ procs[i].pc = "done" /\ procs[i].code = 200
     /\ procs[j].pc = "gen_insert"
     /\ SummaryRows(summaries, procs[j].sid, procs[j].pwids[procs[j].k]) # {}

\* C18: emergency_replace is atomic: in every state another operation can
\* observe, a shift whose status emergency_replace has flipped (or whose
\* successor exists) has a summary for each of its recipients.
C18_ReplaceAtomic ==
  \A sid \in DOMAIN shifts :
     shifts[sid].status = "Emergency-Reassigned"
       => \A p \in Range(shifts[sid].assigned_pwids) :
            SummaryRows(summaries, sid, p) # {}

\* C19: when the generation of an end_shift request fails with a store
\* error, the shift table keeps what was committed: the shift is still
\* closed (Completed, unless an emergency_replace has flipped it since).
C19_FailedSummaryKeepsTransition ==
  [][\A i \in DOMAIN procs :
       (/\ procs[i].op = "end"
        /\ procs[i].pc \in {"gen_query", "gen_update", "gen_insert"}
        /\ procs'[i].pc = "done" /\ procs'[i].code = 500)
         => /\ shifts' = shifts
            /\ shifts'[procs[i].sid].status \in TerminalStatus
            /\ (\A j \in DOMAIN procs :
                   ~(procs[j].op = "replace" /\ procs[j].sid = procs[i].sid))
                 => shifts'[procs[i].sid].status = "Completed"]_vars

\* An end_shift request failed in the generation (after its status commit),
\* the shift is Completed, and another end_shift request for the same shift
\* has produced the missing summaries.
C19_Witness ==
  \E i, j \in DOMAIN procs :
     /\ i < j /\ procs[i].sid = procs[j].sid
     /\ procs[i].op = "end" /\ procs[i].pc = "done" /\ procs[i].code = 500
     /\ procs[i].pwids # <<>>
     /\ procs[j].op = "end" /\ procs[j].pc = "done" /\ procs[j].code = 200
     /\ Len(procs) = 2
     /\ shifts[procs[i].sid].status = "Completed"
     /\ \A p \in Range(shifts[procs[i].sid].assigned_pwids) :
          SummaryRows(summaries, procs[i].sid, p) # {}

\* C21: validate_coverage and the fetch of a shift's handover summaries are
\* pure reads: every shift row (status, window, caregiver, recipients) and
\* every summary row is what it was before the call.
C21_ReadsChangeNothing ==
  [][(nops' # nops /\ resp'.op \in {"coverage", "handover"})
       => (shifts' = shifts /\ summaries' = summaries)]_vars

\* validate_coverage has answered over a store that holds a Scheduled shift
\* whose window contains now and a summary of a closed shift.
C21_Witness ==
  /\ resp.op = "coverage"
  /\ summaries # <<>>
  /\ \E i \in DOMAIN shifts :
       shifts[i].status = "Scheduled" /\ ContainsNow(shifts[i], now)

\* C22: a request that names an absent entity answers NotFound (404) and
\* changes no state: create_shift or assign_recipients with a recipient id
\* that names no row, and end_shift, emergency_replace or assign_recipients
\* with a shift id that names no row.  (A create_shift that names an absent
\* recipient for a caregiver who is booked may answer Conflict instead.)
C22_AbsentEntityNotFound ==
  [][(nops' # nops /\ resp'.op \in {"create", "assign", "end", "replace"})
       => /\ \A c \in Caregivers, w \in ReqWindows, kind \in Kinds, ids \in PwidLists :
               (NoSuchPwid \in Range(ids) /\ CreateShift(c, w[1], w[2], kind, ids, TRUE))
                 => (resp'.code \in {404, 409} /\ shifts' = shifts /\ summaries' = summaries)
          /\ \A sid \in ReqShiftIds, ids \in PwidLists :
               ((sid \notin DOMAIN shifts \/ NoSuchPwid \in Range(ids))
                 /\ AssignPwids(sid, ids))
                 => (resp'.code = 404 /\ shifts' = shifts /\ summaries' = summaries)
          /\ \A sid \in ReqShiftIds :
               (sid \notin DOMAIN shifts /\ EndShift(sid))
                 => (resp'.code = 404 /\ shifts' = shifts /\ summaries' = summaries)
          /\ \A sid \in ReqShiftIds, c \in Caregivers :
               (sid \notin DOMAIN shifts /\ EmergencyReplace(sid, c))
                 => (resp'.code = 404 /\ shifts' = shifts /\ summaries' = summaries)]_vars

\* C23: a mutating request that lacks a required input (create_shift without
\* a caregiver, ...) is answered with an error, and the shift table with its
\* memberships and the summary table are exactly what they were.
C23_MissingInputRejected ==
  [][(nops' # nops)
       => /\ \A key \in CreateKeys, c \in Caregivers, w \in InvalidWindows :
               CreateShiftMissing(key, c, w[1], w[2])
                 => (resp'.code >= 400 /\ shifts' = shifts /\ summaries' = summaries)
          /\ \A key \in AssignKeys, sid \in InvalidShiftIds :
               AssignPwidsMissing(key, sid)
                 => (resp'.code >= 400 /\ shifts' = shifts /\ summaries' = summaries)
          /\ EndShiftMissing
               => (resp'.code >= 400 /\ shifts' = shifts /\ summaries' = summaries)
          /\ \A key \in ReplaceKeys, sid \in InvalidShiftIds :
               EmergencyReplaceMissing(key, sid)
                 => (resp'.code >= 400 /\ shifts' = shifts /\ summaries' = summaries)]_vars

\* create_shift without a caregiver has been answered 500 over a store that
\* holds a shift and a summary.
C23_Witness ==
  /\ resp.op = "create" /\ resp.code = 500
  /\ shifts # <<>> /\ summaries # <<>>

\* The rows of the routinelog table of recipient p stamped from the start of
\* shift row sh up to instant t.
C24_Selected(p, sh, t) ==
  {k \in DOMAIN logs : /\ logs[k].pwid_id = p
                        /\ Instant(sh.start_time) <= logs[k].created_at
                        /\ logs[k].created_at <= t}

RECURSIVE C24_Chronological(_)
\* The rows S of the routinelog table, earliest stamp first.
C24_Chronological(S) ==
  IF S = {} THEN <<>>
  ELSE LET m == CHOOSE k \in S : \A j \in S :
                  \/ logs[k].created_at < logs[j].created_at
                  \/ (logs[k].created_at = logs[j].created_at /\ k <= j)
       IN <<m>> \o C24_Chronological(S \ {m})

\* C24: the summary a generation at instant now writes for (shift,
\* recipient) is computed from exactly the recipient's logs stamped between
\* the shift's start and now (not those of other recipients, not those
\* before the start, and up to now rather than the shift's end_time); its
\* mood trend is the moods of those logs in chronological order; and a log
\* recorded for an assigned recipient of a shift that has started is one of
\* the logs a generation for that shift selects from then on.
C24_SummaryFromWindowLogs ==
  [][/\ (nops' # nops /\ resp'.op \in {"end", "replace"} /\ resp'.code = 200)
        => LET sid == resp'.id
           IN \A p \in Range(shifts[sid].assigned_pwids) :
                \A i \in SummaryRows(summaries', sid, p) :
                   LET sel == C24_Chronological(C24_Selected(p, shifts[sid], now))
                       c == summaries'[i].content
                   IN /\ c.mood_trend = [k \in DOMAIN sel |-> logs[sel[k]].mood]
                      /\ c.meals_summary # <<"No Data">> => c.meals_summary[2] = Len(sel)
                      /\ (c.meals_summary = <<"No Data">>) <=> (sel = <<>>)
     /\ (nops' # nops /\ resp'.op \in {"log", "create_log", "observe"}
                      /\ resp'.code = 201)
        => LET l == logs'[Len(logs')]
           IN \A sid \in DOMAIN shifts :
                (/\ l.pwid_id \in Range(shifts[sid].assigned_pwids)
                 /\ Instant(shifts[sid].start_time) <= now)
                  => \A t \in now..MaxTime :
                       WindowLogs(<<l>>, l.pwid_id, shifts[sid], t) = <<l>>]_vars

\* The logs of recipient p a generation for shift row sh at instant t reads.
C25_Logs(p, sh, t) ==
  {k \in DOMAIN logs : /\ logs[k].pwid_id = p
                        /\ Instant(sh.start_time) <= logs[k].created_at
                        /\ logs[k].created_at <= t}

\* C25: for a recipient with a non-empty log set the summary's sleep label
\* is a value no other value of the logs' sleep fields occurs more often
\* than, and its meal compliance is "k/n taken" with n the number of logs
\* and k <= n the number of logs whose meals field is 'taken'.
C25_ModeAndMeals ==
  [][(nops' # nops /\ resp'.op \in {"end", "replace"} /\ resp'.code = 200)
       => \A p \in Range(shifts[resp'.id].assigned_pwids) :
            LET sel == C25_Logs(p, shifts[resp'.id], now)
                occ(v) == Cardinality({k \in sel : logs[k].sleep_quality = v})
                taken == Cardinality({k \in sel : logs[k].meals = "taken"})
            IN sel # {}
                 => \A i \in SummaryRows(summaries', resp'.id, p) :
                      LET c == summaries'[i].content
                      IN /\ occ(c.sleep_quality) > 0
                         /\ \A v \in {logs[k].sleep_quality : k \in sel} :
                              occ(v) <= occ(c.sleep_quality)
                         /\ c.meals_summary = <<taken, Cardinality(sel), "taken">>
                         /\ taken <= Cardinality(sel)]_vars

\* C26: the risk level and the risk justification of a summary are the
\* level and the justification text the trend-risk evaluator returns for
\* the log set the summary's other fields are computed from.
C26_RiskVerbatim ==
  [][(nops' # nops /\ resp'.op \in {"end", "replace"} /\ resp'.code = 200)
       => \A p \in Range(shifts[resp'.id].assigned_pwids) :
            \A i \in SummaryRows(summaries', resp'.id, p) :
               LET risk == calculate_trend_risk(WindowLogs(logs, p, shifts[resp'.id], now))
               IN /\ summaries'[i].content.risk_level = risk.level
                  /\ summaries'[i].content.risk_justification = risk.reason]_vars

\* C27: the trend-risk evaluator called with an empty log list returns level
\* Low with score 0, the same on every call, and so a generation never
\* fails for a recipient without logs: end_shift and emergency_replace on an
\* existing shift answer 200 and write such a recipient a summary rated Low.
C27_EmptyLogsLowRisk ==
  [][(nops' # nops /\ resp'.op \in {"end", "replace"})
       => /\ calculate_trend_risk(<<>>).level = "Low"
          /\ calculate_trend_risk(<<>>).score = 0
          /\ \A sid \in DOMAIN shifts :
               (EndShift(sid) \/ \E c \in Caregivers : EmergencyReplace(sid, c))
                 => /\ resp'.code = 200
                    /\ \A p \in Range(shifts[sid].assigned_pwids) :
                         WindowLogs(logs, p, shifts[sid], now) = <<>>
                           => /\ SummaryRows(summaries', sid, p) # {}
                              /\ \A i \in SummaryRows(summaries', sid, p) :
                                   summaries'[i].content.risk_level = "Low"]_vars

\* A shift was closed while one recipient had logs that rate High and the
\* other had none: the first's summary is rated High, the second's Low.
C27_Witness ==
  /\ resp.op \in {"end", "replace"} /\ resp.code = 200
  /\ \E i, j \in DOMAIN summaries :
       /\ summaries[i].content.risk_level = "High"
       /\ summaries[j].content.risk_level = "Low"
       /\ summaries[j].content.mood_trend = <<>>
       /\ \A k \in DOMAIN logs : logs[k].pwid_id # summaries[j].pwid_id

\* C28: the creation check and the assignment check decide one overlap
\* predicate: for every stored shift with a well-formed window and every
\* well-formed requested window, create_shift's window condition matches the
\* pair exactly when assign_recipients' window condition does.
C28_SameOverlapPredicate ==
  \A i \in DOMAIN shifts, w \in ReqWindows :
     (WellFormed(w) /\ Instant(shifts[i].start_time) < Instant(shifts[i].end_time))
       => (CreateWindowCond(shifts[i].start_time, shifts[i].end_time, Iso(w[1]), Iso(w[2]))
            <=> AssignWindowCond(shifts[i].start_time, shifts[i].end_time,
                                 Iso(w[1]), Iso(w[2])))

\* C29: shift history is append-only: no operation removes a row of the
\* shift table, so the set of shift ids only grows.
C29_AppendOnly ==
  [][DOMAIN shifts \subseteq DOMAIN shifts']_vars

\* After a replacement and an end_shift the table holds three shifts, one
\* of them Emergency-Reassigned and one Completed.
C29_Witness ==
  /\ resp.op = "end" /\ resp.code = 200
  /\ Len(shifts) = 3
  /\ \E i, j \in DOMAIN shifts :
       shifts[i].status = "Completed" /\ shifts[j].status = "Emergency-Reassigned"

\* C30: under every interleaving of a listing with an end_shift or an
\* emergency_replace on the same Scheduled shift, a committed Completed or
\* Emergency-Reassigned status is never set back to Active (by the
\* listing's write of what it read before that commit).
C30_TerminalSurvivesListing ==
  [][\A i \in DOMAIN shifts :
       shifts[i].status \in TerminalStatus => shifts'[i].status # "Active"]_vars

\* C31: emergency_replace checks the new caregiver's availability: when the
\* new caregiver has a Scheduled or Active shift (other than the original)
\* whose window overlaps [now, original.end], the replacement is refused and
\* the shift table is unchanged.
C31_ReplaceChecksAvailability ==
  [][(nops' # nops /\ resp'.op = "replace")
       => \A sid \in ReqShiftIds, c \in Caregivers :
            (/\ sid \in DOMAIN shifts
             /\ EmergencyReplace(sid, c)
             /\ \E j \in DOMAIN shifts :
                  /\ j # sid
                  /\ shifts[j].caregiver_id = c
                  /\ Live(shifts[j])
                  /\ OpenOverlap(Instant(shifts[j].start_time), Instant(shifts[j].end_time),
                                 now, Instant(shifts[sid].end_time)))
              => (resp'.code = 409 /\ shifts' = shifts)]_vars

\* C32: coverage continuity: when the original shift is Scheduled or Active
\* and has started by now (so it covers its recipients for [now,
\* original.end]), then right after emergency_replace find_uncovered([now,
\* original.end]) reports none of the original's recipients.
C32_CoverageContinuity ==
  [][(nops' # nops /\ resp'.op = "replace" /\ resp'.code = 200)
       => LET sid == resp'.id
          IN (Live(shifts[sid]) /\ Instant(shifts[sid].start_time) <= now)
               => \A p \in Range(shifts[sid].assigned_pwids) :
                    p \notin Range(Uncovered(shifts', Iso(now), shifts[sid].end_time))]_vars

\* A shift with two recipients that started before now has just been
\* replaced: its successor starts at now, and the other shifts of the table
\* hold none of the two recipients.
C32_Witness ==
  /\ resp.op = "replace" /\ resp.code = 200
  /\ now > 0
  /\ Instant(shifts[resp.id2].start_time) = now
  /\ Instant(shifts[resp.id].start_time) < now
  /\ Cardinality(Range(shifts[resp.id].assigned_pwids)) = 2
  /\ \A j \in DOMAIN shifts : j \notin {resp.id, resp.id2} => shifts[j].assigned_pwids = <<>>

\* C33: a create_shift that answers Conflict leaves the store exactly as it
\* was: no shift row and no membership is added, no existing shift and no
\* summary is modified.
C33_FailedCreateFrame ==
  [][(nops' # nops /\ resp'.op = "create" /\ resp'.code = 409)
       => /\ shifts' = shifts
          /\ summaries' = summaries
          /\ logs' = logs /\ tasks' = tasks]_vars

\* create_shift has answered Conflict, naming a Scheduled shift of the
\* caregiver, over a store that also holds a closed shift with its summaries.
C33_Witness ==
  /\ resp.op = "create" /\ resp.code = 409
  /\ resp.id \in DOMAIN shifts /\ shifts[resp.id].status = "Scheduled"
  /\ shifts[resp.id].assigned_pwids # <<>>
  /\ summaries # <<>>

\* C34: a listing changes nothing but the status of Scheduled shifts whose
\* window contains now: a shift whose window does not contain now, and a
\* shift that is Active, Completed or Emergency-Reassigned, keeps its
\* status; no shift's window, caregiver, kind or recipient collection and no
\* summary row is modified, and no row is added.
C34_ListingFrame ==
  [][(nops' # nops /\ resp'.op \in {"active", "all"})
       => /\ DOMAIN shifts' = DOMAIN shifts
          /\ summaries' = summaries
          /\ \A i \in DOMAIN shifts :
               /\ shifts'[i] = [shifts[i] EXCEPT !.status = shifts'[i].status]
               /\ (\/ shifts[i].status # "Scheduled"
                   \/ ~(Instant(shifts[i].start_time) <= now
                        /\ now <= Instant(shifts[i].end_time)))
                    => shifts'[i].status = shifts[i].status]_vars

\* A listing has run over a table with a Scheduled shift whose window does
\* not contain now, a closed shift with a summary whose window does, and an
\* Active shift.
C34_Witness ==
  /\ resp.op \in {"active", "all"}
  /\ summaries # <<>>
  /\ \E i, j, k \in DOMAIN shifts :
       /\ shifts[i].status = "Scheduled" /\ Instant(shifts[i].start_time) > now
       /\ shifts[j].status \in TerminalStatus
       /\ Instant(shifts[j].start_time) <= now /\ now <= Instant(shifts[j].end_time)
       /\ shifts[k].status = "Active"

\* C35: every shift the list-active-shifts operation returns has status
\* Active when the result is returned: a Completed or Emergency-Reassigned
\* shift is not listed, also when now lies inside its window.
C35_ListedAreActive ==
  [][(nops' # nops /\ resp'.op = "active")
       => \A i \in Range(resp'.ids) : shifts'[i].status = "Active"]_vars

\* C36: every persisted shift is well-formed, start_time < end_time, in
\* every reachable state: the shifts create_shift makes and the successors
\* emergency_replace makes (from the call time to the original's end).
C36_WellFormedShifts ==
  \A i \in DOMAIN shifts :
     Instant(shifts[i].start_time) < Instant(shifts[i].end_time)

\* C37: a shift has at most one successor: an emergency_replace on a shift
\* that is already Emergency-Reassigned or Completed creates no further
\* shift.
C37_OneSuccessor ==
  [][(nops' # nops /\ resp'.op = "replace" /\ resp'.id \in DOMAIN shifts)
       => (shifts[resp'.id].status \in TerminalStatus
             => DOMAIN shifts' = DOMAIN shifts)]_vars

\* C38: in every reachable state every recipient assigned to a Completed
\* shift has a summary row for that shift (assign_recipients does not add a
\* recipient to a completed shift without a summary).
C38_CompletedHaveSummaries ==
  \A i \in DOMAIN shifts :
     shifts[i].status = "Completed"
       => \A p \in Range(shifts[i].assigned_pwids) : SummaryRows(summaries, i, p) # {}

\* C39: no operation changes the caregiver, the window or the kind of an
\* existing shift; a shift's recipient collection changes only by an
\* assign_recipients on that shift, so end_shift and emergency_replace leave
\* the original's recipients as they are (the successor gets a copy).
C39_ShiftFieldsFrame ==
  [][\A i \in DOMAIN shifts :
       /\ i \in DOMAIN shifts'
       /\ shifts'[i].caregiver_id = shifts[i].caregiver_id
       /\ shifts'[i].start_time = shifts[i].start_time
       /\ shifts'[i].end_time = shifts[i].end_time
       /\ shifts'[i].type = shifts[i].type
       /\ shifts'[i].assigned_pwids # shifts[i].assigned_pwids
            => (nops' # nops /\ resp'.op = "assign" /\ resp'.code = 200 /\ resp'.id = i)]_vars

\* assign_recipients has succeeded on one shift while another shift, replaced
\* earlier, still holds the recipients its successor holds.
C39_Witness ==
  /\ resp.op = "assign" /\ resp.code = 200 /\ resp.ids # <<>>
  /\ \E i, j \in DOMAIN shifts :
       /\ resp.id \notin {i, j}
       /\ shifts[i].status = "Emergency-Reassigned"
       /\ shifts[j].start_time = Adapted(Instant(shifts[j].start_time))
       /\ shifts[i].assigned_pwids # <<>>
       /\ shifts[j].assigned_pwids = shifts[i].assigned_pwids

====
